---------------------------- MODULE Spec2Model ----------------------------
(***************************************************************************)
(* Unified Namespace integration layer.                                    *)
(*                                                                         *)
(* Part I   Sparkplug B session sequencer (Spb_Message_Generator of        *)
(*          uns_sparkplugb.uns_spb_helper): the two wrapping counters and  *)
(*          the node-death / node-birth payload builders.  The helper's    *)
(*          source is not part of the source tree at hand; its behaviour   *)
(*          is taken from the specification and pinned by the helper's     *)
(*          test-suite (test_uns_spb_helper.py).                           *)
(*                                                                         *)
(* Part II  Topic-to-graph transformer (GraphDBHandler of                  *)
(*          uns_graphdb.graphdb_handler): save_all_nodes, save_node,       *)
(*          save_attribute_nodes, separate_plain_composite_attributes and  *)
(*          get_topic_node_type, over an explicit model of the property    *)
(*          graph the Cypher statement of save_node reads and writes.      *)
(*                                                                         *)
(* Part III Sparkplug B listener (UNSSparkPlugBMapper of                   *)
(*          uns_spb_mapper.uns_sparkplugb_listner): on_message and the     *)
(*          client loop that main() runs.                                  *)
(***************************************************************************)
EXTENDS Integers, Sequences, FiniteSets, TLC

VARIABLES
    \* ---- Part I: one Spb_Message_Generator instance
    seqNum,     \* message sequence number of the generator
    bdSeq,      \* birth/death sequence number of the generator
    nSeq,       \* history: invocations of getSeqNum so far (direct or by a builder)
    nBd,        \* history: invocations of getBdSeqNum so far (direct or by a builder)
    ret,        \* what the last call on the generator returned
    prevDeath,  \* bdSeq value of the death payload built by the call before the
                \* last one, NoValue when that call built no death payload
    \* ---- Part II: the graph database and the last write transaction
    nodes,      \* sequence of graph nodes; a node's element id is its index
    rels,       \* set of <<parent id, child id>>: the PARENT_OF relationships
    calls,      \* the save_node calls of the last save_all_nodes, in order
    last,       \* arguments and outcome of the last save_all_nodes
    now,        \* number of write transactions run so far; the next timestamp
    \* ---- one call of a transformer function on chosen arguments
    fnArgs,     \* the function called and its arguments
    fnOut,      \* what the function returned
    \* ---- Part III: the Sparkplug B listener process
    spbOut,     \* the calls made to Spb2UNSPublisher.transform_spb_and_publish_to_uns
    spbLast,    \* the last message delivered to on_message and its outcome
    spbRunning, \* the client loop of main() is still running
    \* ---- one GraphDBHandler.persist_mqtt_msg call and its retries
    pm,
    \* ---- the historian: its handler and its listener
    hh,         \* the HistorianHandler: connection, cursor, table, the running call
    histLog,    \* how each call of main, on_message and persist_mqtt_msg ended
    histRunning, \* main() has reached loop_forever and not left it
    \* ---- one call of a typed metric setter and the decoding of what it stored
    spbArgs,    \* the arguments of the call
    spbMetric,  \* the value slots of the metric
    spbDecoded, \* the logical value decoded from the stored one
    \* ---- one call of a function of the GraphQL types
    gqlArgs,    \* the object the function is called on
    gqlOut      \* what the call returned or raised

seqVars   == <<seqNum, bdSeq, nSeq, nBd, ret, prevDeath>>
graphVars == <<nodes, rels, calls, last, now>>
fnVars    == <<fnArgs, fnOut>>
spbVars   == <<spbOut, spbLast, spbRunning>>
pmVars    == <<pm>>
histVars  == <<hh, histLog, histRunning>>
codecVars == <<spbArgs, spbMetric, spbDecoded>>
gqlVars   == <<gqlArgs, gqlOut>>
vars      == <<seqNum, bdSeq, nSeq, nBd, ret, prevDeath, nodes, rels, calls, last, now,
               fnArgs, fnOut, spbOut, spbLast, spbRunning, pm, hh, histLog, histRunning,
               spbArgs, spbMetric, spbDecoded, gqlArgs, gqlOut>>

-----------------------------------------------------------------------------
(***************************************************************************)
(* Part I.  Session sequencer                                              *)
(***************************************************************************)

\* Number of states of each counter: values 0..255, the successor of 255 is 0.
SeqModulus == 256

\* Total number of counter invocations explored on one generator.
MaxCalls == 270

\* Wall-clock readings (milliseconds) a payload builder can observe.
MaxClock == 2
Clock == 1..MaxClock

\* Marks an absent number (no value returned, payload.seq not set).
NoValue == -1

\* Successor of a counter value.  A plausible slip wraps one value early.
NextCounter_Mod255(c) == (c + 1) % (SeqModulus - 1)

\* Successor of a counter value without the wrap.
NextCounter_NoWrap(c) == c + 1

NextCounter(c) == (c + 1) % SeqModulus

\* The metric both payload builders add: addMetric(payload, "bdSeq", None, Int64, v).
BdSeqMetric(v, t) ==
    [name |-> "bdSeq", datatype |-> "Int64", timestamp |-> t, long_value |-> v]

\* Result of a call: the operation, the counters it found, the counter value it
\* returned (counter operations), and the payload it built (builders).
Result(op, value, seq, metrics) ==
    [op |-> op, preSeq |-> seqNum, preBd |-> bdSeq, value |-> value,
     seq |-> seq, metrics |-> metrics, raised |-> FALSE]

NoResult ==
    [op |-> "none", preSeq |-> 0, preBd |-> 0, value |-> NoValue,
     seq |-> NoValue, metrics |-> <<>>, raised |-> FALSE]

InitSeq ==
    /\ seqNum = 0
    /\ bdSeq = 0
    /\ nSeq = 0
    /\ nBd = 0
    /\ ret = NoResult
    /\ prevDeath = NoValue

\* The bdSeq value of the death payload `r` holds, NoValue for any other result.
DeathValueOf(r) ==
    IF r.op = "getNodeDeathPayload" THEN r.metrics[1].long_value ELSE NoValue

\* getSeqNum(): return the current value, then advance it.
getSeqNum ==
    /\ nSeq + nBd < MaxCalls
    /\ ret' = Result("getSeqNum", seqNum, NoValue, <<>>)
    /\ seqNum' = NextCounter(seqNum)
    /\ nSeq' = nSeq + 1
    /\ prevDeath' = DeathValueOf(ret)
    /\ UNCHANGED <<bdSeq, nBd>>

\* getBdSeqNum() on a generator whose two operations share one counter.
getBdSeqNum_SharedCounter ==
    /\ nSeq + nBd < MaxCalls
    /\ ret' = Result("getBdSeqNum", bdSeq, NoValue, <<>>)
    /\ bdSeq' = NextCounter(bdSeq)
    /\ seqNum' = NextCounter(seqNum)
    /\ nBd' = nBd + 1
    /\ prevDeath' = DeathValueOf(ret)
    /\ UNCHANGED <<nSeq>>

\* getBdSeqNum(): the same on the birth/death counter.
getBdSeqNum ==
    /\ nSeq + nBd < MaxCalls
    /\ ret' = Result("getBdSeqNum", bdSeq, NoValue, <<>>)
    /\ bdSeq' = NextCounter(bdSeq)
    /\ nBd' = nBd + 1
    /\ prevDeath' = DeathValueOf(ret)
    /\ UNCHANGED <<seqNum, nSeq>>

\* getNodeDeathPayload() reading the counter without advancing it.
getNodeDeathPayload_NoTick ==
    /\ nSeq + nBd < MaxCalls
    /\ \E t \in Clock :
         ret' = Result("getNodeDeathPayload", NoValue, NoValue,
                       <<BdSeqMetric(bdSeq, t)>>)
    /\ nBd' = nBd + 1
    /\ prevDeath' = DeathValueOf(ret)
    /\ UNCHANGED <<seqNum, bdSeq, nSeq>>

\* getNodeDeathPayload(): one bdSeq metric carrying getBdSeqNum().
getNodeDeathPayload ==
    /\ nSeq + nBd < MaxCalls
    /\ \E t \in Clock :
         ret' = Result("getNodeDeathPayload", NoValue, NoValue,
                       <<BdSeqMetric(bdSeq, t)>>)
    /\ bdSeq' = NextCounter(bdSeq)
    /\ nBd' = nBd + 1
    /\ prevDeath' = DeathValueOf(ret)
    /\ UNCHANGED <<seqNum, nSeq>>

\* getNodeBirthPayload() restarting the message sequence at 0.
getNodeBirthPayload_Reset ==
    /\ nSeq + nBd < MaxCalls
    /\ \E t \in Clock :
         ret' = Result("getNodeBirthPayload", NoValue, 0,
                       <<BdSeqMetric(bdSeq, t)>>)
    /\ seqNum' = NextCounter(0)
    /\ nSeq' = nSeq + 1
    /\ prevDeath' = DeathValueOf(ret)
    /\ UNCHANGED <<bdSeq, nBd>>

\* getNodeBirthPayload() reporting the value the last getBdSeqNum() returned.
getNodeBirthPayload_DeathValue ==
    /\ nSeq + nBd < MaxCalls
    /\ \E t \in Clock :
         ret' = Result("getNodeBirthPayload", NoValue, seqNum,
                       <<BdSeqMetric((bdSeq + SeqModulus - 1) % SeqModulus, t)>>)
    /\ seqNum' = NextCounter(seqNum)
    /\ nSeq' = nSeq + 1
    /\ prevDeath' = DeathValueOf(ret)
    /\ UNCHANGED <<bdSeq, nBd>>

\* getNodeBirthPayload(): payload.seq = getSeqNum(), and a bdSeq metric
\* reporting the birth/death counter as the last death payload left it.
getNodeBirthPayload ==
    /\ nSeq + nBd < MaxCalls
    /\ \E t \in Clock :
         ret' = Result("getNodeBirthPayload", NoValue, seqNum,
                       <<BdSeqMetric(bdSeq, t)>>)
    /\ seqNum' = NextCounter(seqNum)
    /\ nSeq' = nSeq + 1
    /\ prevDeath' = DeathValueOf(ret)
    /\ UNCHANGED <<bdSeq, nBd>>

-----------------------------------------------------------------------------
(***************************************************************************)
(* Part II.  Topic-to-graph transformer                                    *)
(***************************************************************************)

\* ---- Python values of a decoded JSON message.  Every value has the same
\* ---- shape: its kind, its text (scalars) and its items.  The items of a
\* ---- dict are its <<key, value>> pairs in insertion order; the items of a
\* ---- list are <<"", element>> pairs in list order.
StrV(x)  == [kind |-> "str",  s |-> x,  items |-> <<>>]
IntV(x)  == [kind |-> "int",  s |-> x,  items |-> <<>>]
NoneV    == [kind |-> "none", s |-> "", items |-> <<>>]
ListV(q) == [kind |-> "list", s |-> "", items |-> [i \in 1..Len(q) |-> <<"", q[i]>>]]
DictV(d) == [kind |-> "dict", s |-> "", items |-> d]

\* ---- dict operations on <<key, value>> pair sequences.  The keys of a
\* ---- decoded JSON object are strings and are kept as their text; the keys
\* ---- of the composite map of separate_plain_composite_attributes are
\* ---- Python values (a "name" may be any scalar), equal when both type and
\* ---- text agree.
HasKey(d, k)  == \E i \in 1..Len(d) : d[i][1] = k
IndexOf(d, k) == CHOOSE i \in 1..Len(d) : d[i][1] = k
Get(d, k)     == d[IndexOf(d, k)][2]

\* d[k] = v
Put(d, k, v) ==
    IF HasKey(d, k) THEN [d EXCEPT ![IndexOf(d, k)] = <<k, v>>]
    ELSE Append(d, <<k, v>>)

\* d.update(e)
RECURSIVE Update(_, _)
Update(d, e) ==
    IF Len(e) = 0 THEN d ELSE Update(Put(d, e[1][1], e[1][2]), Tail(e))

\* Constants used for creating the CQL query.
NODE_NAME_KEY == "node_name"

\* _modified_timestamp of a node that was never modified; 0 as a parent id is
\* Python's None.
NoTimestamp == 0
NoParent == 0

\* ---- separate_plain_composite_attributes
Separated(simple, complex, err) ==
    [simple_attr |-> simple, complex_attr |-> complex, err |-> err]

\* isinstance(item, (dict, list, tuple))
IsComposite(item) == item.kind \in {"dict", "list"}

\* The positional key alone.
ItemKey_Positional(key, counter, item) == StrV(key \o "_" \o ToString(counter))

\* The key an element of a list gets (lines 414-418): the str
\* <key>_<counter>, or item["name"] as it is, whatever its type, when the
\* element is a dict that has one.
ItemKey(key, counter, item) ==
    IF item.kind = "dict" /\ HasKey(item.items, "name")
    THEN Get(item.items, "name")
    ELSE StrV(key \o "_" \o ToString(counter))

\* A dict "name" that is itself a dict or a list cannot be used as a key.
ItemKeyUnhashable(item) ==
    /\ item.kind = "dict"
    /\ HasKey(item.items, "name")
    /\ IsComposite(Get(item.items, "name"))

\* The loop over the elements of a list value (lines 413-421): temp_dict and
\* is_only_simple_arr after the elements from position counter + 1 on.
RECURSIVE ListLoop(_, _, _, _)
ListLoop(key, items, counter, acc) ==
    IF counter >= Len(items) \/ acc.err # "ok" THEN acc
    ELSE LET item == items[counter + 1][2]
         IN  IF ItemKeyUnhashable(item)
             THEN [acc EXCEPT !.err = "TypeError"]
             ELSE ListLoop(key, items, counter + 1,
                    [temp_dict |-> Put(acc.temp_dict, ItemKey(key, counter, item), item),
                     is_only_simple_arr |-> acc.is_only_simple_arr /\ ~IsComposite(item),
                     err |-> "ok"])

\* The loop over the keys of the dict (lines 402-430), from position i on.
RECURSIVE AttrLoop(_, _, _)
AttrLoop(attributes, i, acc) ==
    IF i > Len(attributes) \/ acc.err # "ok" THEN acc
    ELSE LET key      == attributes[i][1]
             attr_val == attributes[i][2]
         IN  IF attr_val.kind = "dict"
             THEN AttrLoop(attributes, i + 1,
                    Separated(acc.simple_attr, Put(acc.complex_attr, StrV(key), attr_val), "ok"))
             ELSE IF attr_val.kind = "list"
             THEN LET l == ListLoop(key, attr_val.items, 0,
                             [temp_dict |-> <<>>, is_only_simple_arr |-> TRUE, err |-> "ok"])
                  IN  IF l.err # "ok"
                      THEN Separated(acc.simple_attr, acc.complex_attr, l.err)
                      ELSE IF l.is_only_simple_arr
                      THEN AttrLoop(attributes, i + 1,
                             Separated(Put(acc.simple_attr, key, attr_val), acc.complex_attr, "ok"))
                      ELSE AttrLoop(attributes, i + 1,
                             Separated(acc.simple_attr, Update(acc.complex_attr, l.temp_dict), "ok"))
             ELSE AttrLoop(attributes, i + 1,
                    Separated(Put(acc.simple_attr, key, attr_val), acc.complex_attr, "ok"))

\* separate_plain_composite_attributes(attributes).  None is an empty dict; a
\* value that is no dict is iterated by "for key in attributes" and fails at
\* attributes.get unless it is empty (a number is not iterable at all).
separate_plain_composite_attributes(attributes) ==
    CASE attributes.kind = "none" -> Separated(<<>>, <<>>, "ok")
      [] attributes.kind = "dict" ->
            AttrLoop(attributes.items, 1, Separated(<<>>, <<>>, "ok"))
      [] attributes.kind = "list" ->
            IF Len(attributes.items) = 0 THEN Separated(<<>>, <<>>, "ok")
            ELSE Separated(<<>>, <<>>, "AttributeError")
      [] attributes.kind = "str" ->
            IF attributes.s = "" THEN Separated(<<>>, <<>>, "ok")
            ELSE Separated(<<>>, <<>>, "AttributeError")
      [] attributes.kind = "int" -> Separated(<<>>, <<>>, "TypeError")

\* get_topic_node_type counting the extra depth from 0.
get_topic_node_type_FromZero(current_depth, node_types) ==
    IF current_depth < Len(node_types)
    THEN [label |-> node_types[current_depth + 1], err |-> "ok"]
    ELSE IF Len(node_types) = 0
    THEN [label |-> "", err |-> "IndexError"]
    ELSE [label |-> node_types[Len(node_types)] \o "_depth_"
                      \o ToString(current_depth - Len(node_types)),
          err |-> "ok"]

\* ---- get_topic_node_type(current_depth, node_types); node_types[-1] of an
\* ---- empty tuple raises IndexError.
get_topic_node_type(current_depth, node_types) ==
    IF current_depth < Len(node_types)
    THEN [label |-> node_types[current_depth + 1], err |-> "ok"]
    ELSE IF Len(node_types) = 0
    THEN [label |-> "", err |-> "IndexError"]
    ELSE [label |-> node_types[Len(node_types)] \o "_depth_"
                      \o ToString(current_depth - Len(node_types) + 1),
          err |-> "ok"]

\* ---- topic.split("/") on a topic given as its sequence of characters
RECURSIVE SplitFrom(_, _, _)
SplitFrom(topic, i, cur) ==
    IF i > Len(topic) THEN <<cur>>
    ELSE IF topic[i] = "/" THEN <<cur>> \o SplitFrom(topic, i + 1, "")
    ELSE SplitFrom(topic, i + 1, cur \o topic[i])

split(topic) == SplitFrom(topic, 1, "")

\* ---- the graph: G.nodes[i] = [label, props, created, modified], G.rels
Graph(ns, rs) == [nodes |-> ns, rels |-> rs]

\* SET n += $attributes: every key is written, a null value removes the key.
RECURSIVE SetProps(_, _)
SetProps(props, attributes) ==
    IF Len(attributes) = 0 THEN props
    ELSE LET k == attributes[1][1]
             v == attributes[1][2]
             p == IF v.kind = "none"
                  THEN [x \in DOMAIN props \ {k} |-> props[x]]
                  ELSE [x \in DOMAIN props \cup {k} |-> IF x = k THEN v ELSE props[x]]
         IN  SetProps(p, Tail(attributes))

\* A node carries the label and has node_name = nodename; nodename is the
\* Python value passed as the parameter $nodename, and a property equals it
\* when type and value agree (no property equals null).
NodeIs(n, nodetype, nodename) ==
    /\ n.label = nodetype
    /\ nodename.kind # "none"
    /\ NODE_NAME_KEY \in DOMAIN n.props
    /\ n.props[NODE_NAME_KEY] = nodename

\* The nodes the statement of save_node binds.  With a parent:
\*   OPTIONAL MATCH (parent)-[r:PARENT_OF]->(child:<nodetype> {node_name: $nodename})
\* without one:  MERGE (new_node:<nodetype> {node_name: $nodename})
MatchedNodes_AnyLabel(G, parent, nodetype, nodename) ==
    {i \in 1..Len(G.nodes) :
        /\ nodename.kind # "none"
        /\ NODE_NAME_KEY \in DOMAIN G.nodes[i].props
        /\ G.nodes[i].props[NODE_NAME_KEY] = nodename
        /\ (parent # NoParent => <<parent, i>> \in G.rels)}

MatchedNodes(G, parent, nodetype, nodename) ==
    {i \in 1..Len(G.nodes) :
        /\ NodeIs(G.nodes[i], nodetype, nodename)
        /\ (parent # NoParent => <<parent, i>> \in G.rels)}

\* The rows of a result, in one of the orders the database may return them.
RECURSIVE Rows(_, _)
Rows(ids, order) ==
    IF ids = {} THEN <<>>
    ELSE LET first == IF order = "asc"
                      THEN CHOOSE i \in ids : \A j \in ids : i <= j
                      ELSE CHOOSE i \in ids : \A j \in ids : i >= j
         IN  <<first>> \o Rows(ids \ {first}, order)

\* What the statement does to a node it matched.  Under a parent:
\*   SET child._modified_timestamp = $timestamp  SET child += $attributes
\* with no parent (the MERGE found the node):
\*   SET new_node._created_timestamp = $timestamp  SET new_node += $attributes
MergeInto(n, parent, attributes, timestamp) ==
    IF parent = NoParent
    THEN [n EXCEPT !.created = timestamp, !.props = SetProps(n.props, attributes)]
    ELSE [n EXCEPT !.modified = timestamp, !.props = SetProps(n.props, attributes)]

\* {node_name: $nodename} of a created node; a null value sets no property.
NameProps(nodename) ==
    [x \in (IF nodename.kind = "none" THEN {} ELSE {NODE_NAME_KEY}) |-> nodename]

\* A created node that is given its name alone.
NewNode_NameOnly(nodetype, nodename, attributes, timestamp) ==
    [label    |-> nodetype,
     props    |-> NameProps(nodename),
     created  |-> timestamp,
     modified |-> NoTimestamp]

\* The node the statement creates when it matched none.
NewNode(nodetype, nodename, attributes, timestamp) ==
    [label    |-> nodetype,
     props    |-> SetProps(NameProps(nodename), attributes),
     created  |-> timestamp,
     modified |-> NoTimestamp]

\* save_node(session, nodename, nodetype, attributes, parent_id, timestamp):
\* the graph after the statement and the rows it returns (value.child).
\* nodename is a topic segment (a str) or a key of the composite map.
save_node(G, nodename, nodetype, attributes, parent_id, timestamp, order) ==
    LET attrs   == IF attributes.kind = "none" THEN <<>> ELSE attributes.items
        parent  == IF parent_id \in 1..Len(G.nodes) THEN parent_id ELSE NoParent
        matched == MatchedNodes(G, parent, nodetype, nodename)
        new_id  == Len(G.nodes) + 1
    IN  IF matched = {}
        THEN [G    |-> Graph(Append(G.nodes, NewNode(nodetype, nodename, attrs, timestamp)),
                             IF parent = NoParent THEN G.rels
                             ELSE G.rels \cup {<<parent, new_id>>}),
              rows |-> <<new_id>>,
              matched |-> matched]
        ELSE [G    |-> Graph([i \in 1..Len(G.nodes) |->
                                IF i \in matched
                                THEN MergeInto(G.nodes[i], parent, attrs, timestamp)
                                ELSE G.nodes[i]],
                             G.rels),
              rows |-> Rows(matched, order),
              matched |-> matched]

\* One save_node call as the transaction log keeps it.
Call(phase, nodename, nodetype, attributes, parent_id, timestamp, G, r) ==
    [phase |-> phase, nodename |-> nodename, nodetype |-> nodetype,
     attributes |-> attributes, parent_id |-> parent_id, timestamp |-> timestamp,
     matched |-> r.matched, rows |-> r.rows, pre |-> G, post |-> r.G]

\* The running state of a write transaction.
Tx(G, cs, err) == [G |-> G, calls |-> cs, err |-> err]

\* composite_attributes[child_key] with child_key an item (key, value) of
\* composite_attributes.items() (lines 252-253): hashing the tuple fails when
\* the value is a dict or a list, and the lookup fails otherwise.
ChildLookupError(composite_attributes) ==
    IF IsComposite(composite_attributes[1][2]) THEN "TypeError" ELSE "KeyError"

\* save_attribute_nodes(session, lastnode_id, attr_nodes, attr_node_type,
\* timestamp): the loop over the keys of attr_nodes, from position i on.
RECURSIVE save_attribute_nodes(_, _, _, _, _, _, _)
save_attribute_nodes(tx, lastnode_id, attr_nodes, i, attr_node_type, timestamp, order) ==
    IF i > Len(attr_nodes) \/ tx.err # "ok" THEN tx
    ELSE LET key == attr_nodes[i][1]
             sep == separate_plain_composite_attributes(attr_nodes[i][2])
             r   == save_node(tx.G, key, attr_node_type, DictV(sep.simple_attr),
                              lastnode_id, timestamp, order)
             c   == Call("attribute", key, attr_node_type, DictV(sep.simple_attr),
                         lastnode_id, timestamp, tx.G, r)
         IN  IF sep.err # "ok" THEN Tx(tx.G, tx.calls, sep.err)
             ELSE IF Len(sep.complex_attr) > 0
             THEN Tx(r.G, Append(tx.calls, c), ChildLookupError(sep.complex_attr))
             ELSE save_attribute_nodes(Tx(r.G, Append(tx.calls, c), "ok"), lastnode_id,
                                       attr_nodes, i + 1, attr_node_type, timestamp, order)

\* The attribute map a segment is saved with (lines 214-217): the message's
\* plain attributes for the leaf, None for every other segment.
NodeAttr_Every(count, segs, simple_attr) == DictV(simple_attr)

NodeAttr(count, segs, simple_attr) ==
    IF count = Len(segs) - 1 THEN DictV(simple_attr) ELSE NoneV

\* The loop of save_all_nodes over the topic's segments (lines 211-225), from
\* segment count + 1 on.
RECURSIVE TopicLoop(_, _, _, _, _, _, _, _, _)
TopicLoop(tx, segs, count, lastnode_id, sep, timestamp, node_types, attr_node_type, order) ==
    IF count >= Len(segs) \/ tx.err # "ok" THEN tx
    ELSE LET leaf      == count = Len(segs) - 1
             node_attr == NodeAttr(count, segs, sep.simple_attr)
             node_type == get_topic_node_type(count, node_types)
             r  == save_node(tx.G, StrV(segs[count + 1]), node_type.label, node_attr,
                             lastnode_id, timestamp, order)
             c  == Call("topic", StrV(segs[count + 1]), node_type.label, node_attr,
                        lastnode_id, timestamp, tx.G, r)
             tx1 == Tx(r.G, Append(tx.calls, c), "ok")
         IN  IF node_type.err # "ok" THEN Tx(tx.G, tx.calls, node_type.err)
             ELSE IF leaf
             THEN save_attribute_nodes(tx1, r.rows[1], sep.complex_attr, 1,
                                       attr_node_type, timestamp, order)
             ELSE TopicLoop(tx1, segs, count + 1, r.rows[1], sep, timestamp,
                            node_types, attr_node_type, order)

\* save_all_nodes(session, topic, message, timestamp, node_types, attr_node_type)
save_all_nodes(G, topic, message, timestamp, node_types, attr_node_type, order) ==
    LET sep == separate_plain_composite_attributes(message)
    IN  IF sep.err # "ok" THEN Tx(G, <<>>, sep.err)
        ELSE TopicLoop(Tx(G, <<>>, "ok"), split(topic), 0, NoParent, sep, timestamp,
                       node_types, attr_node_type, order)

\* ---- the inputs explored
\* Write transactions run from the empty database; the n-th one carries the
\* timestamp n.
MaxWrites == 3

Topics ==
    { <<"a">>,
      <<"a", "/", "b">>,
      <<"a", "/", "b", "/", "c">>,
      <<"a", "/", "c">> }

\* {}
MsgEmpty == DictV(<<>>)
\* {"a": "v1", "b": [10, 23], "c": {"k1": "v1", "k2": 100}}
MsgDict ==
    DictV(<< <<"a", StrV("v1")>>,
             <<"b", ListV(<<IntV("10"), IntV("23")>>)>>,
             <<"c", DictV(<< <<"k1", StrV("v1")>>, <<"k2", IntV("100")>> >>)>> >>)
\* {"c": [{"name": "v1", "k2": 100}, {"name": "v2", "k2": 200}]}
MsgNamedList ==
    DictV(<< <<"c", ListV(<< DictV(<< <<"name", StrV("v1")>>, <<"k2", IntV("100")>> >>),
                             DictV(<< <<"name", StrV("v2")>>, <<"k2", IntV("200")>> >>) >>)>> >>)
\* {"node_name": "c", "a": "v2"}
MsgNodeName ==
    DictV(<< <<NODE_NAME_KEY, StrV("c")>>, <<"a", StrV("v2")>> >>)
\* {"c": {"k1": {"x": 1}}}
MsgNested ==
    DictV(<< <<"c", DictV(<< <<"k1", DictV(<< <<"x", IntV("1")>> >>)>> >>)>> >>)

\* {"c": {"k3": 1}}
MsgOtherKeys ==
    DictV(<< <<"c", DictV(<< <<"k3", IntV("1")>> >>)>> >>)
\* {"c": {"node_name": "d"}}
MsgRenamedMap ==
    DictV(<< <<"c", DictV(<< <<NODE_NAME_KEY, StrV("d")>> >>)>> >>)

Messages ==
    {MsgEmpty, MsgDict, MsgNamedList, MsgNodeName, MsgNested, MsgOtherKeys, MsgRenamedMap}

\* The level names of the callers: the specification's three-level example.
NodeTypes == { <<"ENTERPRISE", "FACILITY", "AREA">> }

AttrNodeTypes == {"NESTED_ATTRIBUTE"}

RowOrders == {"asc", "desc"}

\* What a write keeps of the write made before it.
Before(write) ==
    [done |-> write.done, topic |-> write.topic, message |-> write.message,
     err |-> write.err]

NoWrite ==
    [done |-> FALSE, topic |-> <<>>, message |-> NoneV, node_types |-> <<>>,
     attr_node_type |-> "", timestamp |-> NoTimestamp, err |-> "ok",
     before |-> [done |-> FALSE, topic |-> <<>>, message |-> NoneV, err |-> "ok"]]

InitGraph ==
    /\ nodes = <<>>
    /\ rels = {}
    /\ calls = <<>>
    /\ last = NoWrite
    /\ now = 0

\* session.execute_write(self.save_all_nodes, topic, message, timestamp,
\* node_types, attr_node_type): the transaction commits when save_all_nodes
\* returns and is rolled back when it raises.
execute_write(topic, message, node_types, attr_node_type, order) ==
    /\ now < MaxWrites
    /\ LET tx == save_all_nodes(Graph(nodes, rels), topic, message, now + 1,
                                node_types, attr_node_type, order)
       IN  /\ nodes' = IF tx.err = "ok" THEN tx.G.nodes ELSE nodes
           /\ rels'  = IF tx.err = "ok" THEN tx.G.rels ELSE rels
           /\ calls' = tx.calls
           /\ last'  = [done |-> TRUE, topic |-> topic, message |-> message,
                        node_types |-> node_types, attr_node_type |-> attr_node_type,
                        timestamp |-> now + 1, err |-> tx.err,
                        before |-> Before(last)]
    /\ now' = now + 1

\* ---- one call of a transformer function on chosen arguments, from the
\* ---- empty database
\* Depths get_topic_node_type is called with: 0..MaxDepth.
MaxDepth == 9

LevelLists ==
    { <<>>,
      <<"ENTERPRISE">>,
      <<"ENTERPRISE", "FACILITY", "AREA">>,
      <<"ENTERPRISE", "FACILITY", "AREA", "LINE", "DEVICE">> }

\* None
MsgNone == NoneV
\* {"a": None, "b": []}
MsgNoneValue == DictV(<< <<"a", NoneV>>, <<"b", ListV(<<>>)>> >>)
\* {"c": [1, {"a": 2}]}
MsgMixedList ==
    DictV(<< <<"c", ListV(<< IntV("1"), DictV(<< <<"a", IntV("2")>> >>) >>)>> >>)
\* {"a": "v1", "c": [{"k": 1}, {"name": "v2", "k2": 200}]}
MsgUnnamedList ==
    DictV(<< <<"a", StrV("v1")>>,
             <<"c", ListV(<< DictV(<< <<"k", IntV("1")>> >>),
                             DictV(<< <<"name", StrV("v2")>>, <<"k2", IntV("200")>> >>) >>)>> >>)
\* {"c": [[1], 2]}
MsgNestedList ==
    DictV(<< <<"c", ListV(<< ListV(<<IntV("1")>>), IntV("2") >>)>> >>)
\* {"c": [{"name": "v1", "k2": 100}, {"name": "v1", "k2": 200}]}
MsgSameName ==
    DictV(<< <<"c", ListV(<< DictV(<< <<"name", StrV("v1")>>, <<"k2", IntV("100")>> >>),
                             DictV(<< <<"name", StrV("v1")>>, <<"k2", IntV("200")>> >>) >>)>> >>)

\* {"c": [{"name": 5, "k": 1}, {"name": "5", "k": 2}]}
MsgIntName ==
    DictV(<< <<"c", ListV(<< DictV(<< <<"name", IntV("5")>>, <<"k", IntV("1")>> >>),
                             DictV(<< <<"name", StrV("5")>>, <<"k", IntV("2")>> >>) >>)>> >>)
\* {"c": [{"name": None, "k": 1}, {"name": "", "k": 2}]}
MsgNoneName ==
    DictV(<< <<"c", ListV(<< DictV(<< <<"name", NoneV>>, <<"k", IntV("1")>> >>),
                             DictV(<< <<"name", StrV("")>>, <<"k", IntV("2")>> >>) >>)>> >>)

FnMessages ==
    Messages \cup {MsgNone, MsgNoneValue, MsgMixedList, MsgUnnamedList,
                   MsgNestedList, MsgSameName, MsgIntName, MsgNoneName}

\* "", "a", "a/b"
FnTopics == { <<>>, <<"a">>, <<"a", "/", "b">> }

FnNodeTypes == { <<>>, <<"ENTERPRISE", "FACILITY", "AREA">> }

FnArgs(fn, current_depth, node_types, topic, message) ==
    [fn |-> fn, current_depth |-> current_depth, node_types |-> node_types,
     topic |-> topic, message |-> message]

NoArgs == FnArgs("none", 0, <<>>, <<>>, NoneV)

FnResult(label, simple, complex, err) ==
    [done |-> TRUE, label |-> label, simple_attr |-> simple,
     complex_attr |-> complex, err |-> err]

NoOutput ==
    [done |-> FALSE, label |-> "", simple_attr |-> <<>>, complex_attr |-> <<>>,
     err |-> "ok"]

FnInputs ==
    {FnArgs("get_topic_node_type", d, nt, <<>>, NoneV) :
        d \in 0..MaxDepth, nt \in LevelLists}
    \cup
    {FnArgs("save_all_nodes", 0, nt, t, m) :
        nt \in FnNodeTypes, t \in FnTopics, m \in FnMessages}

\* No function call is under way.
InitFn ==
    /\ fnArgs = NoArgs
    /\ fnOut = NoOutput

\* GraphDBHandler.get_topic_node_type(current_depth, node_types)
call_get_topic_node_type ==
    /\ fnArgs.fn = "get_topic_node_type"
    /\ ~fnOut.done
    /\ LET r == get_topic_node_type(fnArgs.current_depth, fnArgs.node_types)
       IN  fnOut' = FnResult(r.label, <<>>, <<>>, r.err)
    /\ UNCHANGED <<fnArgs, seqVars, graphVars, spbVars, pmVars, histVars, codecVars, gqlVars>>

\* GraphDBHandler.separate_plain_composite_attributes(message)
call_separate_plain_composite_attributes ==
    /\ fnArgs.fn = "save_all_nodes"
    /\ ~fnOut.done
    /\ LET r == separate_plain_composite_attributes(fnArgs.message)
       IN  fnOut' = FnResult("", r.simple_attr, r.complex_attr, r.err)
    /\ UNCHANGED <<fnArgs, seqVars, graphVars, spbVars, pmVars, histVars, codecVars, gqlVars>>

\* session.execute_write(self.save_all_nodes, topic, message, ...) with the
\* same message, on the empty database.
call_save_all_nodes ==
    /\ fnArgs.fn = "save_all_nodes"
    /\ fnOut.done
    /\ ~last.done
    /\ \E attr_node_type \in AttrNodeTypes, order \in RowOrders :
          execute_write(fnArgs.topic, fnArgs.message, fnArgs.node_types,
                        attr_node_type, order)
    /\ UNCHANGED <<fnVars, seqVars, spbVars, pmVars, histVars, codecVars, gqlVars>>

-----------------------------------------------------------------------------
(***************************************************************************)
(* Part III.  Sparkplug B listener                                         *)
(***************************************************************************)

\* Messages delivered to one listener process.
MaxMessages == 4

\* Topics of 1, 3, 4, 5 and 6 segments.
SpbTopics ==
    { <<"spBv1.0">>,
      <<"spBv1.0", "/", "g1", "/", "NDATA">>,
      <<"spBv1.0", "/", "g1", "/", "NBIRTH", "/", "e1">>,
      <<"spBv1.0", "/", "g1", "/", "DDATA", "/", "e1", "/", "d1">>,
      <<"spBv1.0", "/", "g1", "/", "DBIRTH", "/", "e1", "/", "d2">>,
      <<"spBv1.0", "/", "g1", "/", "DDATA", "/", "e1", "/", "d1", "/", "x">> }

\* A payload is a Sparkplug B protobuf the codec can decode, or it is not.
SpbPayloads == {"decodable", "undecodable"}

\* device_id = None
NoDevice == <<>>

\* The arguments of one transform_spb_and_publish_to_uns call.
SpbCall(payload, group_id, message_type, edge_node_id, device_id) ==
    [payload |-> payload, group_id |-> group_id, message_type |-> message_type,
     edge_node_id |-> edge_node_id, device_id |-> device_id]

\* Spb2UNSPublisher.transform_spb_and_publish_to_uns: decoding a payload
\* that is no Sparkplug B message fails with a decode error.
transform_spb_and_publish_to_uns(payload) ==
    IF payload = "decodable" THEN "ok" ELSE "DecodeError"

\* What on_message does with a message: the calls it makes to the publisher
\* and the exception it ends with ("ok" when it returns).
OnMessageResult(handed, err) == [handed |-> handed, err |-> err]

\* The body of on_message (lines 111-139): the else of line 122 belongs to
\* "if len(topic_path) == 5", and the handler of line 134 raises the
\* exception again after logging it.
on_message_body(topic, payload) ==
    LET topic_path == split(topic)
    IN  IF Len(topic_path) >= 4
        THEN IF Len(topic_path) = 5
             THEN OnMessageResult(
                    <<SpbCall(payload, topic_path[2], topic_path[3], topic_path[4],
                              <<topic_path[5]>>)>>,
                    transform_spb_and_publish_to_uns(payload))
             ELSE OnMessageResult(<<>>, "ValueError")
        ELSE OnMessageResult(<<>>, "ValueError")

\* main() (lines 154-163): uns_client.loop_forever() inside try/finally
\* with no except clause.  What the client loop does with an exception that
\* leaves on_message is the MQTT client's, whose source is not at hand: it
\* lets the exception through, which ends loop_forever and the process, or
\* it suppresses the exception and goes on with the next message
\* (suppress_exceptions).
LoopRunsAfter(err, suppress_exceptions) == err = "ok" \/ suppress_exceptions

NoMessage ==
    [done |-> FALSE, count |-> 0, topic |-> <<>>, payload |-> "",
     handed |-> <<>>, err |-> "ok", raised |-> FALSE]

InitSpb ==
    /\ spbOut = <<>>
    /\ spbLast = NoMessage
    /\ spbRunning = TRUE

\* The client loop delivers one message to on_message.
on_message(topic, payload, suppress_exceptions) ==
    /\ spbRunning
    /\ spbLast.count < MaxMessages
    /\ LET r == on_message_body(topic, payload)
       IN  /\ spbOut' = spbOut \o r.handed
           /\ spbLast' = [done |-> TRUE, count |-> spbLast.count + 1,
                          topic |-> topic, payload |-> payload,
                          handed |-> r.handed, err |-> r.err,
                          raised |-> r.err # "ok"]
           /\ spbRunning' = LoopRunsAfter(r.err, suppress_exceptions)

-----------------------------------------------------------------------------
(***************************************************************************)
(* Part IV.  GraphDBHandler.persist_mqtt_msg and its retries               *)
(***************************************************************************)

\* Values of max_retry a handler is constructed with: 0..MaxRetry.
MaxRetry == 2

\* The default of the node_types parameter of persist_mqtt_msg (line 137).
DEFAULT_NODE_TYPES == <<"ENTERPRISE", "FACILITY", "AREA", "LINE", "DEVICE">>

\* The errors persist_mqtt_msg retries on (line 161).
TransientErrors == {"TransientError", "TransactionError", "SessionExpired"}

PersistTopics == { <<"a">>, <<"a", "/", "b">> }
PersistMessages == {MsgEmpty, MsgDict, MsgNested}
PersistNodeTypes == { <<"ENTERPRISE", "FACILITY", "AREA">>, <<"L1">> }

\* except (DatabaseError, TransientError, DatabaseUnavailable,
\* ServiceUnavailable) of connect (lines 97-102).
RetriableConnectErrors ==
    {"DatabaseError", "TransientError", "DatabaseUnavailable", "ServiceUnavailable"}

\* What one run of the try block of connect can meet: verify_connectivity
\* returns, or it raises an error connect retries on, or another exception
\* is raised.
ConnectOutcomes == {"ok", "TransientError", "ServiceUnavailable", "AuthError"}

\* The driver of a constructed handler (lines 62-64) and no connect call
\* running: first and retry are the retry argument of the outermost and of
\* the innermost connect call, attempts counts the runs of the try block.
NoConnect ==
    [status |-> "idle", first |-> 0, retry |-> 0, attempts |-> 0, driver |-> "set",
     outcome |-> "none", err |-> "ok"]

\* self.connect(retry) is called.
StartConnect(driver, retry) ==
    [status |-> "running", first |-> retry, retry |-> retry, attempts |-> 0,
     driver |-> driver, outcome |-> "none", err |-> "ok"]

\* The ceiling test with the ceiling itself still allowed one more attempt.
ConnectRetriesExceeded_Late(retry, max_retry) == retry > max_retry

\* if retry >= self.max_retry (line 103)
ConnectRetriesExceeded(retry, max_retry) == retry >= max_retry

\* One run of the try block of connect (lines 93-116) on connect state c:
\* the driver is created when there is none and its connectivity verified;
\* a retriable error raises SystemError at the ceiling and otherwise makes
\* connect call itself with retry + 1; any other exception raises
\* SystemError; without an exception connect returns the driver.
connect(c, max_retry, outcome) ==
    LET tried == [c EXCEPT !.attempts = @ + 1, !.driver = "set", !.outcome = outcome]
    IN  IF outcome = "ok" THEN [tried EXCEPT !.status = "returned"]
        ELSE IF outcome \in RetriableConnectErrors
        THEN IF ConnectRetriesExceeded(c.retry, max_retry)
             THEN [tried EXCEPT !.status = "raised", !.err = "SystemError"]
             ELSE [tried EXCEPT !.retry = @ + 1]
        ELSE [tried EXCEPT !.status = "raised", !.err = "SystemError"]

\* The handler before persist_mqtt_msg is called.
NoPersist(max_retry) ==
    [status |-> "idle", max_retry |-> max_retry, topic |-> <<>>, message |-> NoneV,
     node_types |-> <<>>, attr_node_type |-> "", retry |-> 0, attempts |-> <<>>,
     err |-> "ok", connect |-> NoConnect]

InitPersist == pm = NoPersist(0)

\* One write attempt as the call keeps it.
Attempt(retry, node_types, outcome) ==
    [retry |-> retry, node_types |-> node_types, outcome |-> outcome]

\* The ceiling test with the ceiling itself still allowed one more attempt.
RetriesExceeded_Late(retry, max_retry) == retry > max_retry

\* if retry >= self.max_retry (line 162)
RetriesExceeded(retry, max_retry) == retry >= max_retry

\* persist_mqtt_msg(topic, message, timestamp, node_types, attr_node_type)
\* is called: retry = 0, and line 158 calls self.connect(retry).
persist_mqtt_msg(topic, message, node_types, attr_node_type) ==
    /\ pm.status = "idle"
    /\ pm' = [pm EXCEPT !.status = "running", !.topic = topic, !.message = message,
                        !.node_types = node_types, !.attr_node_type = attr_node_type,
                        !.retry = 0,
                        !.connect = StartConnect(pm.connect.driver, 0)]
    /\ UNCHANGED graphVars

\* The connect call of line 158 runs its try block once.
persist_connect(outcome) ==
    /\ pm.status = "running"
    /\ pm.connect.status = "running"
    /\ pm' = [pm EXCEPT !.connect = connect(pm.connect, pm.max_retry, outcome)]
    /\ UNCHANGED graphVars

\* The connection of line 158 fails: connect raises SystemError, which
\* persist_mqtt_msg does not catch.
persist_connect_fails ==
    /\ pm.status = "running"
    /\ pm.connect.status = "raised"
    /\ pm' = [pm EXCEPT !.status = "raised", !.err = pm.connect.err]
    /\ UNCHANGED graphVars

\* The write of line 160 runs to its end: the call returns when the
\* transaction commits and raises what save_all_nodes raised otherwise.
persist_write(order) ==
    /\ pm.status = "running"
    /\ pm.connect.status = "returned"
    /\ execute_write(pm.topic, pm.message, pm.node_types, pm.attr_node_type, order)
    /\ pm' = [pm EXCEPT
                !.attempts = Append(@, Attempt(pm.retry, pm.node_types, "ok")),
                !.status = IF last'.err = "ok" THEN "returned" ELSE "raised",
                !.err = last'.err]

\* The write of line 160 fails with a transient error (lines 161-180): the
\* error is raised again at the ceiling; otherwise persist_mqtt_msg calls
\* closes the driver and calls itself with retry + 1 and without node_types,
\* which takes its default; the new call connects with the new retry.
persist_write_fails(error) ==
    /\ pm.status = "running"
    /\ pm.connect.status = "returned"
    /\ pm' = IF RetriesExceeded(pm.retry, pm.max_retry)
             THEN [pm EXCEPT
                     !.attempts = Append(@, Attempt(pm.retry, pm.node_types, error)),
                     !.status = "raised", !.err = error]
             ELSE [pm EXCEPT
                     !.attempts = Append(@, Attempt(pm.retry, pm.node_types, error)),
                     !.retry = pm.retry + 1,
                     !.node_types = DEFAULT_NODE_TYPES,
                     !.connect = StartConnect("none", pm.retry + 1)]
    /\ UNCHANGED graphVars

-----------------------------------------------------------------------------
(***************************************************************************)
(* Part V.  The historian: HistorianHandler and its MQTT listener          *)
(***************************************************************************)

\* MAX_RETRIES of historian_handler.py.
MAX_RETRIES == 5

\* Calls of main, on_message and persist_mqtt_msg in one behaviour.
MaxHistMessages == 2

\* except (psycopg2.DataError, psycopg2.OperationalError) (line 140)
RetriedErrors == {"DataError", "OperationalError"}

\* What one run of the try block of execute_sql_cmd can meet: the insert is
\* done ("ok"); cursor.execute raises DataError or OperationalError;
\* get_cursor's connect gives up and raises OperationalError
\* ("ConnectError", only without a connection); or another psycopg2 error
\* is raised, which execute_sql_cmd does not catch.
SqlOutcomes == {"ok", "DataError", "OperationalError", "ConnectError", "InterfaceError"}

\* The exception a failed run of the try block raises.
RaisedBy(outcome) == IF outcome = "ConnectError" THEN "OperationalError" ELSE outcome

\* Payloads of the messages given to on_message: get_payload_as_dict
\* returns a dict for the first and raises for the second.
HistPayloads == {"dict", "undecodable"}

\* What exists of the pooled, asynchronous handler the listener is written
\* for: historian_handler.py defines __init__ with seven required
\* arguments, connect, get_cursor, close and a synchronous persist_mqtt_msg;
\* it has no get_shared_pool, no close_pool and no __aenter__ / __aexit__.
HandlerAttributes == {"__init__", "connect", "get_cursor", "close", "persist_mqtt_msg"}

\* HistorianHandler.<name>: a name the class does not define raises
\* AttributeError.
ClassAttribute(name) == IF name \in HandlerAttributes THEN "ok" ELSE "AttributeError"

\* HistorianHandler(*args): __init__ (line 26) has no defaults, so a
\* call with fewer than its seven arguments raises TypeError.
HandlerInitArgs == 7
Construct(nargs) == IF nargs = HandlerInitArgs THEN "ok" ELSE "TypeError"

\* Connections are numbered in the order psycopg2.connect makes them.
NoConnection == 0

\* A handler after __init__ with its arguments (lines 26-48): connected, no
\* cursor, and no persist_mqtt_msg call running.
\* on and before are the connections whose cursor the last run of the insert
\* block and the run before it were given, NoConnection when the run got none.
NoHistCall ==
    [status |-> "idle", retry |-> 0, attempts |-> 0, inserts |-> 0, inserted |-> 0,
     err |-> "ok", on |-> NoConnection, before |-> NoConnection]

InitHist ==
    /\ hh = [conn |-> "open", made |-> 1, cursor |-> "none", cursor_of |-> NoConnection,
             table |-> 0, call |-> NoHistCall]
    /\ histLog = <<>>
    /\ histRunning = FALSE

\* get_cursor (lines 83-91) on handler state h, when connect succeeds: a new
\* cursor of the connection the handler holds, which is made first when it
\* holds none; made counts the connections made so far, the last of which
\* is the one the handler holds.
historian_get_cursor(h) ==
    IF h.cursor \in {"none", "closed"}
    THEN LET made == IF h.conn = "none" THEN h.made + 1 ELSE h.made
         IN  [h EXCEPT !.conn = "open", !.made = made, !.cursor = "open",
                       !.cursor_of = made]
    ELSE h

\* close (lines 93-108): the cursor is closed, and the connection is closed
\* and forgotten unless closing it raises (conn_closed = FALSE), which is
\* logged.
historian_close(h, conn_closed) ==
    [h EXCEPT !.cursor = IF h.cursor = "none" THEN "none" ELSE "closed",
              !.conn = IF h.conn # "none" /\ conn_closed THEN "none" ELSE h.conn]

\* The ceiling test that already stops at the last allowed retry.
HistRetriesExceeded_Early(retry) == retry + 1 >= MAX_RETRIES

\* if retry >= MAX_RETRIES (line 143)
HistRetriesExceeded(retry) == retry >= MAX_RETRIES

\* What is kept of a call once it ends: who made it (main, on_message, or
\* a direct caller of persist_mqtt_msg), how it ended, how often the insert
\* block ran, and whether the exception left the call.
HistResult(via, call, escalated) ==
    [via |-> via, status |-> call.status, attempts |-> call.attempts,
     inserts |-> call.inserts, inserted |-> call.inserted, err |-> call.err,
     escalated |-> escalated]

\* A call that ended with exception err before any run of the insert block.
FailedAt(status, err) == [NoHistCall EXCEPT !.status = status, !.err = err]

\* LOGGER.error(...) is all the except clauses of on_message do
\* (lines 74-91).
Escalates(err) == FALSE

\* main (lines 108-120): UnsMqttHistorian() evaluates
\* HistorianHandler.get_shared_pool (line 37) before the client is run, so
\* the constructor raises and loop_forever (line 115) is not reached; the
\* finally clause skips disconnect and evaluates HistorianHandler.close_pool
\* (line 120), which raises again.  The exception leaves main.
hist_main ==
    /\ ~histRunning
    /\ hh.call.status = "idle"
    /\ Len(histLog) < MaxHistMessages
    /\ LET init == ClassAttribute("get_shared_pool")
           fin  == ClassAttribute("close_pool")
           err  == IF fin # "ok" THEN fin ELSE init
       IN  /\ histRunning' = (init = "ok")
           /\ histLog' = IF err = "ok" THEN histLog
                         ELSE Append(histLog, HistResult("main", FailedAt("raised", err), TRUE))
    /\ UNCHANGED hh

\* on_message (lines 49-91) of a listener object: a payload that cannot be
\* decoded raises in get_payload_as_dict; for a decoded payload
\* run_async_handler evaluates HistorianHandler() without arguments
\* (line 62), which raises before anything is connected or inserted.  The
\* except clause of line 83 logs either exception and on_message returns.
hist_on_message(payload) ==
    /\ hh.call.status = "idle"
    /\ Len(histLog) < MaxHistMessages
    /\ LET err == IF payload = "dict" THEN Construct(0) ELSE "ValueError"
           status == IF payload = "dict" THEN "raised" ELSE "undecoded"
       IN  /\ err # "ok"
           /\ histLog' = Append(histLog,
                  HistResult("on_message", FailedAt(status, err), Escalates(err)))
    /\ UNCHANGED <<hh, histRunning>>

\* persist_mqtt_msg (lines 110-152) called on the handler: execute_sql_cmd
\* starts with retry = 0 (line 152).
historian_persist_mqtt_msg ==
    /\ hh.call.status = "idle"
    /\ Len(histLog) < MaxHistMessages
    /\ hh' = [hh EXCEPT !.call = [NoHistCall EXCEPT !.status = "running"]]
    /\ UNCHANGED <<histLog, histRunning>>

\* The state of the call after one run of the try block of execute_sql_cmd
\* (lines 137-149) with the current retry count.
AfterSqlAttempt(call, outcome) ==
    LET tried == [call EXCEPT !.attempts = @ + 1,
                              !.inserts = IF outcome = "ConnectError" THEN @ ELSE @ + 1]
    IN  IF outcome = "ok"
        THEN [tried EXCEPT !.status = "returned", !.inserted = @ + 1]
        ELSE IF RaisedBy(outcome) \notin RetriedErrors \/ HistRetriesExceeded(call.retry)
        THEN [tried EXCEPT !.status = "raised", !.err = RaisedBy(outcome)]
        ELSE [tried EXCEPT !.retry = @ + 1]

\* The handler after that run: the with block closes its cursor; a row is
\* inserted on success; before a retry the connection is reset.
HandlerAfterSqlAttempt(h, outcome, conn_closed) ==
    LET got  == IF outcome = "ConnectError" THEN h ELSE historian_get_cursor(h)
        used == [got EXCEPT !.cursor = IF @ = "open" THEN "closed" ELSE @,
                            !.table = IF outcome = "ok" THEN @ + 1 ELSE @]
        call == [AfterSqlAttempt(h.call, outcome) EXCEPT
                    !.before = h.call.on,
                    !.on = IF outcome = "ConnectError" THEN NoConnection
                           ELSE got.cursor_of]
    IN  [(IF call.status = "running" THEN historian_close(used, conn_closed) ELSE used)
            EXCEPT !.call = call]

\* One run of execute_sql_cmd (lines 133-149); the run that ends
\* persist_mqtt_msg returns or raises to its caller (raise ex, line 144).
execute_sql_cmd(outcome, conn_closed) ==
    /\ hh.call.status = "running"
    /\ outcome = "ConnectError" => hh.conn = "none"
    /\ LET h == HandlerAfterSqlAttempt(hh, outcome, conn_closed)
       IN  IF h.call.status = "running"
           THEN /\ hh' = h
                /\ UNCHANGED <<histLog, histRunning>>
           ELSE /\ hh' = [h EXCEPT !.call = NoHistCall]
                /\ histLog' = Append(histLog,
                      HistResult("persist_mqtt_msg", h.call, h.call.status = "raised"))
                /\ UNCHANGED histRunning

-----------------------------------------------------------------------------
(***************************************************************************)
(* Part VI.  The typed value setters of a Sparkplug metric                 *)
(*                                                                         *)
(* uns_spb_helper is not part of the sources at hand: the setters are      *)
(* written from the specification and from test_uns_spb_helper.py.         *)
(* Python integers are unbounded and 2**64 exceeds the integers of the     *)
(* model checker, so an integer is a sign and a magnitude of NLimbs digits *)
(* of BaseBits bits each, least significant digit first.                   *)
(***************************************************************************)

BaseBits == 16
Base == 2 ^ BaseBits
NLimbs == 5
Limbs == 1..NLimbs

RECURSIVE DigitsOf(_, _)
\* The digits of a natural number n from digit i on.
DigitsOf(n, i) == IF i > NLimbs THEN <<>> ELSE <<n % Base>> \o DigitsOf(n \div Base, i + 1)

\* The magnitude of a natural number of the model.
MagOf(n) == DigitsOf(n, 1)

ZeroMag == MagOf(0)

\* a < b on magnitudes.
LessMag(a, b) == \E i \in Limbs : a[i] < b[i] /\ \A j \in Limbs : j > i => a[j] = b[j]

RECURSIVE AddDigits(_, _, _, _)
\* The digits of a + b from digit i on, given the carry into digit i.
AddDigits(a, b, i, carry) ==
    IF i > NLimbs THEN <<>>
    ELSE <<(a[i] + b[i] + carry) % Base>>
            \o AddDigits(a, b, i + 1, (a[i] + b[i] + carry) \div Base)

AddMag(a, b) == AddDigits(a, b, 1, 0)

RECURSIVE SubDigits(_, _, _, _)
\* The digits of a - b from digit i on, given the borrow from digit i.
SubDigits(a, b, i, borrow) ==
    IF i > NLimbs THEN <<>>
    ELSE <<(Base + a[i] - b[i] - borrow) % Base>>
            \o SubDigits(a, b, i + 1, IF a[i] - b[i] - borrow < 0 THEN 1 ELSE 0)

\* a - b on magnitudes, for a >= b.
SubMag(a, b) == SubDigits(a, b, 1, 0)

\* A Python value: None, an int, or a value of another type written as text.
SpbNone == [kind |-> "none", neg |-> FALSE, mag |-> ZeroMag, s |-> ""]
SpbInt(neg, mag) == [kind |-> "int", neg |-> neg /\ mag # ZeroMag, mag |-> mag, s |-> ""]
SpbVal(kind, s) == [kind |-> kind, neg |-> FALSE, mag |-> ZeroMag, s |-> s]

\* The int of a model integer n, |n| < Base * Base.
IntOf(n) == IF n < 0 THEN SpbInt(TRUE, MagOf(0 - n)) ELSE SpbInt(FALSE, MagOf(n))

\* x + y, -x, x - y and x < y on ints.
IntAdd(x, y) ==
    IF x.neg = y.neg THEN SpbInt(x.neg, AddMag(x.mag, y.mag))
    ELSE IF LessMag(x.mag, y.mag) THEN SpbInt(y.neg, SubMag(y.mag, x.mag))
    ELSE SpbInt(x.neg, SubMag(x.mag, y.mag))
IntNeg(x) == SpbInt(~x.neg, x.mag)
IntSub(x, y) == IntAdd(x, IntNeg(y))
IntLess(x, y) ==
    IF x.neg # y.neg THEN x.neg
    ELSE IF x.neg THEN LessMag(y.mag, x.mag) ELSE LessMag(x.mag, y.mag)

RECURSIVE Pow2Digits(_, _)
\* The digits of 2**n from digit i on: one digit holds a power of two.
Pow2Digits(n, i) ==
    IF i > NLimbs THEN <<>>
    ELSE <<IF i = (n \div BaseBits) + 1 THEN 2 ^ (n % BaseBits) ELSE 0>> \o Pow2Digits(n, i + 1)

\* 2**n
Pow2(n) == SpbInt(FALSE, Pow2Digits(n, 1))

\* metric_dict of the tests: every slot is None.
metric_dict ==
    [int_value |-> SpbNone, long_value |-> SpbNone, float_value |-> SpbNone,
     double_value |-> SpbNone, string_value |-> SpbNone, bytes_value |-> SpbNone,
     boolean_value |-> SpbNone, template_value |-> SpbNone, datatype |-> SpbNone]

\* The encoding that stores a negative value as it is.
encode_NoOffset(value, factor) == value

\* The wire value of a signed integer: 2**factor is added to a negative
\* value, unless factor is 0.
encode(value, factor) ==
    IF IntLess(value, IntOf(0)) /\ factor # 0 THEN IntAdd(value, Pow2(factor)) ELSE value

\* The decoding that takes 2**(factor - 1) itself for a positive value.
decode_AboveHalf(wire, factor) ==
    IF factor # 0 /\ IntLess(Pow2(factor - 1), wire) THEN IntSub(wire, Pow2(factor)) ELSE wire

\* The logical value of a wire value: 2**factor is subtracted from a value
\* above the signed range 2**(factor - 1) - 1.
decode(wire, factor) ==
    IF factor # 0 /\ IntLess(IntSub(Pow2(factor - 1), IntOf(1)), wire)
    THEN IntSub(wire, Pow2(factor))
    ELSE wire

\* The assignment that also fills the datatype slot with the value.
SetSlot_AndDatatype(metric, slot, value) == [metric EXCEPT ![slot] = value, !.datatype = value]

\* metric.<slot> = value
SetSlot(metric, slot, value) == [metric EXCEPT ![slot] = value]

setIntValueInMetric(value, metric, factor) == SetSlot(metric, "int_value", encode(value, factor))
setLongValueInMetric(value, metric, factor) == SetSlot(metric, "long_value", encode(value, factor))
setFloatValueInMetric(value, metric) == SetSlot(metric, "float_value", value)
setDoubleValueInMetric(value, metric) == SetSlot(metric, "double_value", value)
setBooleanValueInMetric(value, metric) == SetSlot(metric, "boolean_value", value)
setStringValueInMetric(value, metric) == SetSlot(metric, "string_value", value)
setBytesValueInMetric(value, metric) == SetSlot(metric, "bytes_value", value)

\* The signed integers of a width that the calls are made with: the ends of
\* the range and values around zero ...
EdgeInts(factor) ==
    { IntNeg(Pow2(factor - 1)), IntAdd(IntNeg(Pow2(factor - 1)), IntOf(1)),
      IntOf(-10), IntOf(-1), IntOf(0), IntOf(1), IntOf(10),
      IntSub(Pow2(factor - 1), IntOf(2)), IntSub(Pow2(factor - 1), IntOf(1)) }

\* ... every signed 8-bit integer ...
Int8s == {IntOf(n) : n \in -128..127}

\* ... and integers that the width cannot represent.
OutsideInts(factor) == { IntSub(IntNeg(Pow2(factor - 1)), IntOf(1)), Pow2(factor - 1), Pow2(factor) }

\* The arguments of one call.
SpbArgs(setter, value, factor) == [setter |-> setter, value |-> value, factor |-> factor]

NoDecoded == SpbVal("undecoded", "")

SetterInputs ==
    {SpbArgs("setIntValueInMetric", v, 8) : v \in Int8s \cup OutsideInts(8)}
    \cup {SpbArgs("setIntValueInMetric", v, f) :
            v \in EdgeInts(16) \cup OutsideInts(16), f \in {16}}
    \cup {SpbArgs("setIntValueInMetric", v, f) :
            v \in EdgeInts(32) \cup OutsideInts(32), f \in {0, 32}}
    \cup {SpbArgs("setLongValueInMetric", v, f) :
            v \in EdgeInts(64) \cup OutsideInts(64), f \in {0, 64}}
    \cup {SpbArgs("setFloatValueInMetric", SpbVal("float", s), 0) : s \in {"10.0", "-10.0", "0.0"}}
    \cup {SpbArgs("setDoubleValueInMetric", SpbVal("float", s), 0) : s \in {"10.0", "-10.0", "0.0"}}
    \cup {SpbArgs("setBooleanValueInMetric", SpbVal("bool", s), 0) : s \in {"True", "False"}}
    \cup {SpbArgs("setStringValueInMetric", SpbVal("str", s), 0) : s \in {"Test String", ""}}
    \cup {SpbArgs("setBytesValueInMetric", SpbVal("bytes", s), 0) : s \in {"Test String", ""}}

InitCodec ==
    /\ spbArgs = SpbArgs("", SpbNone, 0)
    /\ spbMetric = metric_dict
    /\ spbDecoded = NoDecoded

\* The metric has not been written yet and the call is of this setter.
Calls(setter) == spbArgs.setter = setter /\ spbMetric = metric_dict

call_setIntValueInMetric ==
    /\ Calls("setIntValueInMetric")
    /\ spbMetric' = setIntValueInMetric(spbArgs.value, spbMetric, spbArgs.factor)
    /\ UNCHANGED <<spbArgs, spbDecoded>>

call_setLongValueInMetric ==
    /\ Calls("setLongValueInMetric")
    /\ spbMetric' = setLongValueInMetric(spbArgs.value, spbMetric, spbArgs.factor)
    /\ UNCHANGED <<spbArgs, spbDecoded>>

call_setFloatValueInMetric ==
    /\ Calls("setFloatValueInMetric")
    /\ spbMetric' = setFloatValueInMetric(spbArgs.value, spbMetric)
    /\ UNCHANGED <<spbArgs, spbDecoded>>

call_setDoubleValueInMetric ==
    /\ Calls("setDoubleValueInMetric")
    /\ spbMetric' = setDoubleValueInMetric(spbArgs.value, spbMetric)
    /\ UNCHANGED <<spbArgs, spbDecoded>>

call_setBooleanValueInMetric ==
    /\ Calls("setBooleanValueInMetric")
    /\ spbMetric' = setBooleanValueInMetric(spbArgs.value, spbMetric)
    /\ UNCHANGED <<spbArgs, spbDecoded>>

call_setStringValueInMetric ==
    /\ Calls("setStringValueInMetric")
    /\ spbMetric' = setStringValueInMetric(spbArgs.value, spbMetric)
    /\ UNCHANGED <<spbArgs, spbDecoded>>

call_setBytesValueInMetric ==
    /\ Calls("setBytesValueInMetric")
    /\ spbMetric' = setBytesValueInMetric(spbArgs.value, spbMetric)
    /\ UNCHANGED <<spbArgs, spbDecoded>>

\* The stored integer is read back with the width it was written with.
call_decode ==
    /\ spbDecoded = NoDecoded
    /\ \/ /\ spbArgs.setter = "setIntValueInMetric"
          /\ spbMetric.int_value # SpbNone
          /\ spbDecoded' = decode(spbMetric.int_value, spbArgs.factor)
       \/ /\ spbArgs.setter = "setLongValueInMetric"
          /\ spbMetric.long_value # SpbNone
          /\ spbDecoded' = decode(spbMetric.long_value, spbArgs.factor)
    /\ UNCHANGED <<spbArgs, spbMetric>>

-----------------------------------------------------------------------------
(***************************************************************************)
(* Part VII.  The GraphQL types: Sparkplug values, DataSets, MQTT messages *)
(*                                                                         *)
(* A datatype is a member of one of the enumerations, [enum, tag], or a    *)
(* plain wire tag ([enum |-> "int", tag]); the tags of sparkplug_b_pb2 are *)
(* written by their names.  An enumeration maps its member names to tags;  *)
(* two names with one tag are one member.                                  *)
(***************************************************************************)

SPBDataTypeEnum ==
    [Unknown |-> "Unknown", Int8 |-> "Int8", Int16 |-> "Int16", Int32 |-> "Int32",
     Int64 |-> "Int64", UInt8 |-> "UInt16", UInt16 |-> "UInt16", UInt32 |-> "UInt32",
     UInt64 |-> "UInt64", Float |-> "Float", Double |-> "Double", Boolean |-> "Boolean",
     String |-> "String", DateTime |-> "DateTime", Text |-> "Text", UUID |-> "UUID",
     DataSet |-> "DataSet", Bytes |-> "Bytes", File |-> "File", Template |-> "Template",
     PropertySet |-> "PropertySet", PropertySetList |-> "PropertySetList",
     Int8Array |-> "Int8Array", Int16Array |-> "Int16Array", Int32Array |-> "Int32Array",
     Int64Array |-> "Int64Array", UInt8Array |-> "UInt8Array",
     UInt16Array |-> "UInt16Array", UInt32Array |-> "UInt32Array",
     UInt64Array |-> "UInt64Array", FloatArray |-> "FloatArray",
     DoubleArray |-> "DoubleArray", BooleanArray |-> "BooleanArray",
     StringArray |-> "StringArray", DateTimeArray |-> "DateTimeArray"]

SPBPropertyTypeEnum ==
    [UInt32 |-> "UInt32", Uint64 |-> "UInt64", Float |-> "Float", Double |-> "Double",
     Boolean |-> "Boolean", String |-> "String", PropertySet |-> "PropertySet",
     PropertySetList |-> "PropertySetList"]

EnumOf(enum) == IF enum = "SPBDataTypeEnum" THEN SPBDataTypeEnum ELSE SPBPropertyTypeEnum

\* enum.name, for a name the enumeration has.
Member(enum, name) == [enum |-> enum, tag |-> EnumOf(enum)[name]]

\* A wire tag that is not wrapped into a member.
RawTag(tag) == [enum |-> "int", tag |-> tag]

\* What a call returned or raised; arg is the argument of the exception.
Returns(value) == [done |-> TRUE, err |-> "ok", arg |-> "", value |-> value]
Raises(err, arg) == [done |-> TRUE, err |-> err, arg |-> arg, value |-> NoneV]
NoGqlOut == [done |-> FALSE, err |-> "ok", arg |-> "", value |-> NoneV]

FloatV(x) == [kind |-> "float", s |-> x, items |-> <<>>]
BoolV(x) == [kind |-> "bool", s |-> x, items |-> <<>>]
BytesV(x) == [kind |-> "bytes", s |-> x, items |-> <<>>]

\* The texts that int() and float() accept, and the float each is.
NumericTexts == {"5", "0"}
FloatText == [x \in NumericTexts |-> x \o ".0"]

\* int(value), float(value), bool(value), str(value), bytes(value)
py_int(value) ==
    IF value.kind = "int" THEN Returns(value)
    ELSE IF value.kind = "str"
         THEN IF value.s \in NumericTexts THEN Returns(IntV(value.s))
              ELSE Raises("ValueError", value.s)
    ELSE Raises("TypeError", value.kind)

py_float(value) ==
    IF value.kind \in {"int", "str"}
    THEN IF value.s \in NumericTexts THEN Returns(FloatV(FloatText[value.s]))
         ELSE Raises("ValueError", value.s)
    ELSE Raises("TypeError", value.kind)

py_bool(value) ==
    IF value.kind = "int" THEN Returns(BoolV(IF value.s = "0" THEN "False" ELSE "True"))
    ELSE IF value.kind = "str" THEN Returns(BoolV(IF value.s = "" THEN "False" ELSE "True"))
    ELSE Returns(BoolV("False"))

py_str(value) ==
    IF value.kind = "none" THEN Returns(StrV("None")) ELSE Returns(StrV(value.s))

py_bytes(value) ==
    IF value.kind = "int" THEN Returns(BytesV("zeros:" \o value.s))
    ELSE Raises("TypeError", value.kind)

\* typing.Union(int, float, bool, str) (line 151): typing.Union is
\* subscripted, never called; the call raises TypeError.
TypingUnionCall == Raises("TypeError", "Cannot instantiate typing.Union")

\* The class statements of the module from line 144 on, in order.
ClassStatements ==
    <<"SPBDataSetValue", "SPBDataSetRow", "SPBDataSet", "SPBTemplateParameter",
      "SPBTemplate", "SPBMetric", "SPBNode">>

\* The names of ClassStatements the body of a class statement evaluates, in
\* the order it evaluates them: list[SPBDataSetValue] (line 176),
\* list[SPBDataSetRow(SPBDataSetValue())] (line 197),
\* list[SPBTemplateParameter] (line 269; list["SPBMetric"] is a string),
\* typing.Union[..., SPBDataSet, SPBTemplate] (line 289) and
\* list[SPBMetric] (line 364).
NamesUsed(name) ==
    CASE name = "SPBDataSetRow" -> <<"SPBDataSetValue">>
      [] name = "SPBDataSet"    -> <<"SPBDataSetRow", "SPBDataSetValue">>
      [] name = "SPBTemplate"   -> <<"SPBTemplateParameter">>
      [] name = "SPBMetric"     -> <<"SPBDataSet", "SPBTemplate">>
      [] name = "SPBNode"       -> <<"SPBMetric">>
      [] OTHER                  -> <<>>

\* Running the body of a class statement in a namespace that has bound the
\* names of `bound`: the first name the body evaluates that is not bound
\* raises NameError; with every name bound, the body of SPBDataSetValue
\* raises at the annotation of line 151 and the body of SPBDataSet at the
\* call SPBDataSetValue() of line 197, which passes no argument.
ClassBody(name, bound) ==
    LET used    == NamesUsed(name)
        missing == {i \in 1..Len(used) : used[i] \notin bound}
    IN  IF missing # {}
        THEN Raises("NameError", used[CHOOSE i \in missing : \A j \in missing : i <= j])
        ELSE IF name = "SPBDataSetValue" THEN TypingUnionCall
        ELSE IF name = "SPBDataSet" THEN Raises("TypeError", "SPBDataSetValue()")
        ELSE Returns(StrV(name))

RECURSIVE BoundFrom(_, _)
\* The names bound once the statements from position i on have run in a
\* namespace that had bound the names of `bound`: the module is run from top
\* to bottom and the first exception ends it.
BoundFrom(i, bound) ==
    IF i > Len(ClassStatements) \/ ClassBody(ClassStatements[i], bound).err # "ok"
    THEN bound
    ELSE BoundFrom(i + 1, bound \cup {ClassStatements[i]})

\* The classes of lines 144-376 the module has bound when a method runs.
BoundNames == BoundFrom(1, {})

\* Evaluating a global name in a method body: NameError when the module
\* has not bound it.
NameLookup(name) ==
    IF name \in BoundNames THEN Returns(StrV(name)) ELSE Raises("NameError", name)

\* The statement of a case arm applied to self.value.  The constructors
\* SPBDataSet, SPBTemplate and SPBPropertySet take no parameter "value";
\* the names SPBDataSet and SPBTemplate are looked up first.
Convert(conv, value) ==
    IF conv = "int" THEN py_int(value)
    ELSE IF conv = "float" THEN py_float(value)
    ELSE IF conv = "bool" THEN py_bool(value)
    ELSE IF conv \in {"str", "ID"} THEN py_str(value)
    ELSE IF conv = "bytes" THEN py_bytes(value)
    ELSE IF conv = "None" THEN Returns(NoneV)
    ELSE IF conv \in {"SPBDataSet", "SPBTemplate"} /\ NameLookup(conv).err # "ok"
    THEN NameLookup(conv)
    ELSE Raises("TypeError", conv)

\* A case arm: the member names of its pattern, tried from left to right
\* ("_" is the wildcard), and its statement.
Arm(names, conv) == [names |-> names, conv |-> conv]

RECURSIVE MatchCase(_, _, _, _, _)
\* The match statement on datatype: the arm taken (Len(arms) + 1 when no arm
\* matches), found by evaluating the names of the patterns in order; a name
\* the enumeration does not have raises AttributeError when it is evaluated.
MatchCase(enum, arms, datatype, i, j) ==
    IF i > Len(arms) THEN [arm |-> i, err |-> "ok", arg |-> ""]
    ELSE IF j > Len(arms[i].names) THEN MatchCase(enum, arms, datatype, i + 1, 1)
    ELSE IF arms[i].names[j] = "_" THEN [arm |-> i, err |-> "ok", arg |-> ""]
    ELSE IF arms[i].names[j] \notin DOMAIN EnumOf(enum)
         THEN [arm |-> 0, err |-> "AttributeError", arg |-> arms[i].names[j]]
    ELSE IF Member(enum, arms[i].names[j]) = datatype
         THEN [arm |-> i, err |-> "ok", arg |-> ""]
    ELSE MatchCase(enum, arms, datatype, i, j + 1)

\* match datatype: ... ; a match without a matching arm returns None.
Match(enum, arms, datatype, value) ==
    LET m == MatchCase(enum, arms, datatype, 1, 1)
    IN  IF m.err # "ok" THEN Raises(m.err, m.arg)
        ELSE IF m.arm > Len(arms) THEN Returns(NoneV)
        ELSE Convert(arms[m.arm].conv, value)

\* The arms of SPBMetric.resolve_value (lines 301-344).
MetricArms ==
    << Arm(<<"Int8", "Int16", "Int32", "Int64", "UInt8", "UInt16", "UInt32", "UInt64",
             "DateTime">>, "int"),
       Arm(<<"Float", "Double">>, "float"),
       Arm(<<"Boolean">>, "bool"),
       Arm(<<"String", "Text">>, "str"),
       Arm(<<"ID">>, "ID"),
       Arm(<<"Bytes", "File">>, "bytes"),
       Arm(<<"DataSet">>, "SPBDataSet"),
       Arm(<<"Template">>, "SPBTemplate"),
       Arm(<<"_">>, "str") >>

\* The arms of SPBTemplateParameter.resolve_value (lines 229-258).
TemplateParameterArms ==
    << Arm(<<"Float", "Double">>, "float"),
       Arm(<<"Boolean">>, "bool"),
       Arm(<<"String", "Text">>, "str"),
       Arm(<<"ID">>, "ID"),
       Arm(<<"Bytes", "File">>, "bytes"),
       Arm(<<"DataSet">>, "SPBDataSet"),
       Arm(<<"Template">>, "SPBTemplate"),
       Arm(<<"_">>, "str") >>

\* The arms of SPBPropertyValue.resolve_value (lines 131-141).
PropertyValueArms ==
    << Arm(<<"UInt32", "UInt64">>, "int"),
       Arm(<<"Float", "Double">>, "float"),
       Arm(<<"String">>, "str"),
       Arm(<<"PropertySet">>, "SPBPropertySet"),
       Arm(<<"PropertySetList">>, "typing.List") >>

\* The resolver that converts a null value like any other.
SPBMetric_resolve_value_IgnoresNull(is_null, datatype, value) ==
    Match("SPBDataTypeEnum", MetricArms, datatype, value)

\* SPBMetric.resolve_value
SPBMetric_resolve_value(is_null, datatype, value) ==
    IF is_null THEN Returns(NoneV)
    ELSE Match("SPBDataTypeEnum", MetricArms, datatype, value)

\* SPBPropertyValue.resolve_value
SPBPropertyValue_resolve_value(is_null, datatype, value) ==
    IF is_null THEN Returns(NoneV)
    ELSE Match("SPBPropertyTypeEnum", PropertyValueArms, datatype, value)

\* SPBTemplateParameter.resolve_value: there is no test of a null marker.
SPBTemplateParameter_resolve_value(datatype, value) ==
    Match("SPBDataTypeEnum", TemplateParameterArms, datatype, value)

\* ---- DataSets

\* Columns of a DataSet and cells of a row in the calls that are made.
MaxColumns == 2
\* Rows of a DataSet in the calls that are made.
MaxRows == 2

\* list[SPBDataSetValue], list[SPBDataSetRow]: a parameterized type, which is
\* no list.
GenericAlias(of) == [kind |-> "alias", s |-> of, items |-> <<>>]

\* SPBDataSetValue (lines 144-166), the class statement and a construction:
\* the annotation of value is evaluated when the class body runs and raises,
\* so the class is never defined and no SPBDataSetValue(datatype=...,
\* value=...) yields a value.
SPBDataSetValue(datatype, value) ==
    LET annotation == ClassBody("SPBDataSetValue", {})
    IN  IF annotation.err # "ok" THEN annotation
        ELSE Returns([kind |-> "SPBDataSetValue", datatype |-> datatype, value |-> value])

\* target.append(x): only a list has it; on a parameterized type the call
\* reaches list.append without a list and raises TypeError.
append(target, x) ==
    IF target.kind = "list"
    THEN Returns([target EXCEPT !.items = Append(@, <<"", x>>)])
    ELSE Raises("TypeError", "append")

RECURSIVE RowLoop(_, _, _, _)
\* for datatype, value in zip(datatypes, elements): self.elements.append(...)
\* (lines 181-182).  The argument of append is evaluated before append is
\* called, and the name SPBDataSetValue is looked up to evaluate it.
RowLoop(row_elements, datatypes, elements, i) ==
    IF i > Len(datatypes) THEN Returns([kind |-> "SPBDataSetRow", elements |-> row_elements])
    ELSE LET cls == NameLookup("SPBDataSetValue")
             v   == IF cls.err # "ok" THEN cls
                    ELSE SPBDataSetValue(datatypes[i], elements[i])
         IN  IF v.err # "ok" THEN v
             ELSE LET r == append(row_elements, v.value)
                  IN  IF r.err # "ok" THEN r
                      ELSE RowLoop(r.value, datatypes, elements, i + 1)

\* SPBDataSetRow.__init__(datatypes, elements) (lines 178-184):
\* self.elements = list[SPBDataSetValue] (line 180) looks the name up before
\* the loop.
SPBDataSetRow(datatypes, elements) ==
    IF Len(datatypes) = Len(elements)
    THEN LET cls == NameLookup("SPBDataSetValue")
         IN  IF cls.err # "ok" THEN cls
             ELSE RowLoop(GenericAlias("list[SPBDataSetValue]"), datatypes, elements, 1)
    ELSE Raises("ValueError", "length of datatypes should match length of elements")

RECURSIVE DataSetLoop(_, _, _, _)
\* for row in rows: self.rows.append(SPBDataSetRow(datatypes=types, elements=row))
\* (lines 205-206); the name SPBDataSetRow is looked up for every row.
DataSetLoop(dataset, types, rows, i) ==
    IF i > Len(rows) THEN Returns(dataset)
    ELSE LET cls == NameLookup("SPBDataSetRow")
             row == IF cls.err # "ok" THEN cls ELSE SPBDataSetRow(types, rows[i])
         IN  IF row.err # "ok" THEN row
             ELSE LET r == append(dataset.rows, row.value)
                  IN  IF r.err # "ok" THEN r
                      ELSE DataSetLoop([dataset EXCEPT !.rows = r.value], types, rows, i + 1)

\* SPBDataSet.__init__(columns, types, rows) (lines 199-208):
\* self.rows = list[SPBDataSetRow] (line 204) looks the name up before the
\* loop.
SPBDataSet(columns, types, rows) ==
    IF Len(types) = Len(columns)
    THEN LET cls == NameLookup("SPBDataSetRow")
         IN  IF cls.err # "ok" THEN cls
             ELSE DataSetLoop([kind |-> "SPBDataSet", types |-> types,
                               num_of_columns |-> Len(types), columns |-> columns,
                               rows |-> GenericAlias("list[SPBDataSetRow]")],
                              types, rows, 1)
    ELSE Raises("ValueError", "Length of types array should be same as length of values")

\* ---- MQTT messages

\* UnsMQTTClient is not part of the sources at hand: the namespace prefix,
\* the STATE topic filter and the topic matching are written from
\* test_mqtt_event.py and the MQTT wildcards.
SPARKPLUG_NS == <<"spBv1.0", "/">>
SPB_STATE_MSG_TYPE == <<"spBv1.0", "/", "+", "/", "STATE">>

RECURSIVE LevelsMatch(_, _, _)
\* The topic levels from level i on match the filter levels: "+" is any one
\* level, "#" any rest.
LevelsMatch(filter, levels, i) ==
    IF i > Len(filter) THEN i > Len(levels)
    ELSE IF filter[i] = "#" THEN TRUE
    ELSE IF i > Len(levels) THEN FALSE
    ELSE (filter[i] = "+" \/ filter[i] = levels[i]) /\ LevelsMatch(filter, levels, i + 1)

is_topic_matched(filter, topic) == LevelsMatch(split(filter), split(topic), 1)

\* topic.startswith(prefix)
startswith(topic, prefix) ==
    Len(topic) >= Len(prefix) /\ SubSeq(topic, 1, Len(prefix)) = prefix

\* The byte strings that are UTF-8 encodings of a text.
Utf8Texts == {"{key: value}", "{status: offline}", ""}

\* payload.decode("utf-8")
bytes_decode(payload) ==
    IF payload.s \in Utf8Texts THEN Returns(StrV(payload.s))
    ELSE Raises("UnicodeDecodeError", "utf-8")

JSONPayload(data) == [kind |-> "JSONPayload", data |-> data]
BytesPayload(data) == [kind |-> "BytesPayload", data |-> data]

\* JSONPayload(data=self._raw_payload.decode("utf-8"))
JSONPayloadOf(payload) ==
    LET text == bytes_decode(payload)
    IN  IF text.err # "ok" THEN text ELSE Returns(JSONPayload(text.value))

\* The resolver that asks for the namespace before the STATE filter.
resolve_payload_NamespaceFirst(topic, payload) ==
    IF startswith(topic, SPARKPLUG_NS) THEN Returns(BytesPayload(payload))
    ELSE JSONPayloadOf(payload)

\* MQTTMessage.resolve_payload (lines 38-56)
resolve_payload(topic, payload) ==
    IF is_topic_matched(SPB_STATE_MSG_TYPE, topic) THEN JSONPayloadOf(payload)
    ELSE IF startswith(topic, SPARKPLUG_NS) THEN Returns(BytesPayload(payload))
    ELSE JSONPayloadOf(payload)

\* ---- the calls that are made

GqlArgs(fn, is_null, datatype, value) ==
    [fn |-> fn, is_null |-> is_null, datatype |-> datatype, value |-> value,
     columns |-> <<>>, types |-> <<>>, rows |-> <<>>, topic |-> <<>>, payload |-> NoneV]
DataSetArgs(fn, columns, types, rows) ==
    [fn |-> fn, is_null |-> FALSE, datatype |-> RawTag(""), value |-> NoneV,
     columns |-> columns, types |-> types, rows |-> rows, topic |-> <<>>, payload |-> NoneV]
PayloadArgs(topic, payload) ==
    [fn |-> "resolve_payload", is_null |-> FALSE, datatype |-> RawTag(""), value |-> NoneV,
     columns |-> <<>>, types |-> <<>>, rows |-> <<>>, topic |-> topic, payload |-> payload]
NoGqlArgs == GqlArgs("none", FALSE, RawTag(""), NoneV)

\* Datatypes of a metric or template parameter: every member, and wire tags
\* that were not turned into a member.
MetricDatatypes ==
    {Member("SPBDataTypeEnum", n) : n \in DOMAIN SPBDataTypeEnum}
    \cup {RawTag("UInt8"), RawTag("99")}
PropertyDatatypes ==
    {Member("SPBPropertyTypeEnum", n) : n \in DOMAIN SPBPropertyTypeEnum}
    \cup {RawTag("99")}
SlotValues == {IntV("5"), IntV("0"), StrV("5"), StrV("abc"), NoneV}

ColumnsOf(n) == [i \in 1..n |-> <<"column", i>>]
TypesOf(n) ==
    [i \in 1..n |-> Member("SPBDataTypeEnum", IF i % 2 = 1 THEN "UInt32" ELSE "String")]
CellsOf(n) == [i \in 1..n |-> IF i % 2 = 1 THEN IntV("5") ELSE StrV("abc")]
RowsOf(lens) == [i \in 1..Len(lens) |-> CellsOf(lens[i])]
RowLengths == UNION {[1..m -> 0..MaxColumns] : m \in 0..MaxRows}

MqttTopics ==
    { <<"ent1", "/", "fac1", "/", "area5">>,
      <<"spBv1.0", "/", "uns_group", "/", "STATE">>,
      <<"spBv1.0", "/", "uns_group", "/", "NBIRTH", "/", "eon1">>,
      <<"spBv1.0", "/", "uns_group", "/", "NDATA", "/", "eon1">>,
      <<"spBv1.0", "/", "uns_group", "/", "STATE", "/", "eon1">>,
      <<"spBv1.0", "/", "STATE">>,
      <<"uns_group", "/", "spBv1.0", "/", "STATE">>,
      <<"STATE">> }
MqttPayloads == {BytesV("{key: value}"), BytesV("{status: offline}"), BytesV(""),
                 BytesV("sample_spb_payload")}

GqlInputs ==
    {GqlArgs("SPBMetric.resolve_value", n, d, v) :
        n \in BOOLEAN, d \in MetricDatatypes, v \in SlotValues}
    \cup {GqlArgs("SPBPropertyValue.resolve_value", n, d, v) :
        n \in BOOLEAN, d \in PropertyDatatypes, v \in SlotValues}
    \cup {GqlArgs("SPBTemplateParameter.resolve_value", FALSE, d, v) :
        d \in MetricDatatypes, v \in SlotValues}
    \cup {DataSetArgs("SPBDataSet", ColumnsOf(c), TypesOf(t), RowsOf(lens)) :
        c \in 0..MaxColumns, t \in 0..MaxColumns, lens \in RowLengths}
    \cup {DataSetArgs("SPBDataSetRow", <<>>, TypesOf(t), <<CellsOf(e)>>) :
        t \in 0..MaxColumns, e \in 0..MaxColumns}
    \cup {PayloadArgs(t, p) : t \in MqttTopics, p \in MqttPayloads}

InitGql ==
    /\ gqlArgs = NoGqlArgs
    /\ gqlOut = NoGqlOut

GqlCalls(fn) == gqlArgs.fn = fn /\ ~gqlOut.done

call_SPBMetric_resolve_value ==
    /\ GqlCalls("SPBMetric.resolve_value")
    /\ gqlOut' = SPBMetric_resolve_value(gqlArgs.is_null, gqlArgs.datatype, gqlArgs.value)
    /\ UNCHANGED gqlArgs

call_SPBPropertyValue_resolve_value ==
    /\ GqlCalls("SPBPropertyValue.resolve_value")
    /\ gqlOut' = SPBPropertyValue_resolve_value(gqlArgs.is_null, gqlArgs.datatype,
                                                 gqlArgs.value)
    /\ UNCHANGED gqlArgs

call_SPBTemplateParameter_resolve_value ==
    /\ GqlCalls("SPBTemplateParameter.resolve_value")
    /\ gqlOut' = SPBTemplateParameter_resolve_value(gqlArgs.datatype, gqlArgs.value)
    /\ UNCHANGED gqlArgs

\* SPBDataSet.__init__ and SPBDataSetRow.__init__ run with the names the
\* module has bound.
call_SPBDataSet ==
    /\ GqlCalls("SPBDataSet")
    /\ gqlOut' = SPBDataSet(gqlArgs.columns, gqlArgs.types, gqlArgs.rows)
    /\ UNCHANGED gqlArgs

call_SPBDataSetRow ==
    /\ GqlCalls("SPBDataSetRow")
    /\ gqlOut' = SPBDataSetRow(gqlArgs.types, gqlArgs.rows[1])
    /\ UNCHANGED gqlArgs

call_resolve_payload ==
    /\ GqlCalls("resolve_payload")
    /\ gqlOut' = resolve_payload(gqlArgs.topic, gqlArgs.payload)
    /\ UNCHANGED gqlArgs

-----------------------------------------------------------------------------
Init == InitSeq /\ InitGraph /\ InitFn /\ InitSpb /\ InitPersist /\ InitHist /\ InitCodec /\ InitGql

NextSeq ==
    \/ getSeqNum /\ UNCHANGED <<graphVars, fnVars, spbVars, pmVars, histVars, codecVars, gqlVars>>
    \/ getBdSeqNum /\ UNCHANGED <<graphVars, fnVars, spbVars, pmVars, histVars, codecVars, gqlVars>>
    \/ getNodeDeathPayload /\ UNCHANGED <<graphVars, fnVars, spbVars, pmVars, histVars, codecVars, gqlVars>>
    \/ getNodeBirthPayload /\ UNCHANGED <<graphVars, fnVars, spbVars, pmVars, histVars, codecVars, gqlVars>>

\* One generator used by one producer thread.
SpecSeq == Init /\ [][NextSeq]_vars

NextGraph ==
    \E topic \in Topics, message \in Messages, node_types \in NodeTypes,
       attr_node_type \in AttrNodeTypes, order \in RowOrders :
        execute_write(topic, message, node_types, attr_node_type, order)
        /\ UNCHANGED <<seqVars, fnVars, spbVars, pmVars, histVars, codecVars, gqlVars>>

\* One handler; each message is written to completion before the next one.
SpecGraph == Init /\ [][NextGraph]_vars

\* One call of a transformer function on each of the chosen arguments.
InitCall ==
    /\ InitSeq /\ InitGraph /\ InitSpb /\ InitPersist /\ InitHist /\ InitCodec /\ InitGql
    /\ fnArgs \in FnInputs
    /\ fnOut = NoOutput

NextCall ==
    \/ call_get_topic_node_type
    \/ call_separate_plain_composite_attributes
    \/ call_save_all_nodes

SpecCall == InitCall /\ [][NextCall]_vars

NextSpb ==
    \E topic \in SpbTopics, payload \in SpbPayloads, suppress_exceptions \in BOOLEAN :
        on_message(topic, payload, suppress_exceptions)
        /\ UNCHANGED <<seqVars, graphVars, fnVars, pmVars, histVars, codecVars, gqlVars>>

\* One listener process; the client loop delivers one message at a time.
SpecSpb == Init /\ [][NextSpb]_vars

\* One persist_mqtt_msg call on a handler constructed with some max_retry.
InitRetry ==
    /\ InitSeq /\ InitGraph /\ InitFn /\ InitSpb /\ InitHist /\ InitCodec /\ InitGql
    /\ \E max_retry \in 0..MaxRetry : pm = NoPersist(max_retry)

NextRetry ==
    \/ \E topic \in PersistTopics, message \in PersistMessages,
          node_types \in PersistNodeTypes, attr_node_type \in AttrNodeTypes :
            persist_mqtt_msg(topic, message, node_types, attr_node_type)
            /\ UNCHANGED <<seqVars, fnVars, spbVars, histVars, codecVars, gqlVars>>
    \/ \E outcome \in ConnectOutcomes :
            persist_connect(outcome) /\ UNCHANGED <<seqVars, fnVars, spbVars, histVars, codecVars, gqlVars>>
    \/ persist_connect_fails /\ UNCHANGED <<seqVars, fnVars, spbVars, histVars, codecVars, gqlVars>>
    \/ \E order \in RowOrders :
            persist_write(order) /\ UNCHANGED <<seqVars, fnVars, spbVars, histVars, codecVars, gqlVars>>
    \/ \E error \in TransientErrors :
            persist_write_fails(error) /\ UNCHANGED <<seqVars, fnVars, spbVars, histVars, codecVars, gqlVars>>

SpecRetry == InitRetry /\ [][NextRetry]_vars

\* The historian: main, the listener's on_message, and calls of the
\* handler's persist_mqtt_msg with the retries of execute_sql_cmd.
NextHist ==
    \/ hist_main
            /\ UNCHANGED <<seqVars, graphVars, fnVars, spbVars, pmVars, codecVars, gqlVars>>
    \/ historian_persist_mqtt_msg
            /\ UNCHANGED <<seqVars, graphVars, fnVars, spbVars, pmVars, codecVars, gqlVars>>
    \/ \E payload \in HistPayloads :
            hist_on_message(payload)
            /\ UNCHANGED <<seqVars, graphVars, fnVars, spbVars, pmVars, codecVars, gqlVars>>
    \/ \E outcome \in SqlOutcomes, conn_closed \in BOOLEAN :
            execute_sql_cmd(outcome, conn_closed)
            /\ UNCHANGED <<seqVars, graphVars, fnVars, spbVars, pmVars, codecVars, gqlVars>>

SpecHist == Init /\ [][NextHist]_vars

\* One setter call on a fresh metric, and the decoding of a stored integer.
InitSetter ==
    /\ InitSeq /\ InitGraph /\ InitFn /\ InitSpb /\ InitPersist /\ InitHist /\ InitGql
    /\ spbArgs \in SetterInputs
    /\ spbMetric = metric_dict
    /\ spbDecoded = NoDecoded

NextSetter ==
    /\ \/ call_setIntValueInMetric
       \/ call_setLongValueInMetric
       \/ call_setFloatValueInMetric
       \/ call_setDoubleValueInMetric
       \/ call_setBooleanValueInMetric
       \/ call_setStringValueInMetric
       \/ call_setBytesValueInMetric
       \/ call_decode
    /\ UNCHANGED <<seqVars, graphVars, fnVars, spbVars, pmVars, histVars, gqlVars>>

SpecSetter == InitSetter /\ [][NextSetter]_vars

\* One call of a function of the GraphQL types.
InitGqlCall ==
    /\ InitSeq /\ InitGraph /\ InitFn /\ InitSpb /\ InitPersist /\ InitHist /\ InitCodec
    /\ gqlArgs \in GqlInputs
    /\ gqlOut = NoGqlOut

NextGql ==
    /\ \/ call_SPBMetric_resolve_value
       \/ call_SPBPropertyValue_resolve_value
       \/ call_SPBTemplateParameter_resolve_value
       \/ call_SPBDataSet
       \/ call_SPBDataSetRow
       \/ call_resolve_payload
    /\ UNCHANGED <<seqVars, graphVars, fnVars, spbVars, pmVars, histVars, codecVars>>

SpecGql == InitGqlCall /\ [][NextGql]_vars

-----------------------------------------------------------------------------
(***************************************************************************)
(* Properties of the session sequencer (checked under SpecSeq)             *)
(***************************************************************************)

\* The bdSeq metric of the payload the last call built.
BdMetric == ret.metrics[1]

\* C1: on a fresh generator the n-th getSeqNum call (n-th getBdSeqNum call)
\* returns (n - 1) mod 256 and leaves the counter at n mod 256: the values
\* returned are 0, 1, ..., 255, 0, 1, ... and the 257th call returns 0.
C1_CountersCountModulo256 ==
    /\ ret.op = "getSeqNum" =>
          /\ ret.value = (nSeq - 1) % 256
          /\ seqNum = nSeq % 256
    /\ ret.op = "getBdSeqNum" =>
          /\ ret.value = (nBd - 1) % 256
          /\ bdSeq = nBd % 256

\* The 256th getSeqNum call returned 255 and the 257th has just returned 0.
C1_Witness == ret.op = "getSeqNum" /\ nSeq = 257 /\ ret.value = 0 /\ nBd = 0

\* C2: getNodeBirthPayload called right after the only getNodeDeathPayload of
\* a fresh generator returns seq 0 and a bdSeq metric of datatype Int64 with a
\* timestamp and the value 1.
C2_BirthAfterOneDeath ==
    (ret.op = "getNodeBirthPayload" /\ nSeq = 1 /\ nBd = 1 /\ prevDeath # NoValue) =>
        /\ ret.seq = 0
        /\ Len(ret.metrics) = 1
        /\ BdMetric.name = "bdSeq"
        /\ BdMetric.datatype = "Int64"
        /\ BdMetric.timestamp \in Clock
        /\ BdMetric.long_value = 1

C2_Witness ==
    /\ ret.op = "getNodeBirthPayload" /\ nSeq = 1 /\ nBd = 1
    /\ prevDeath = 0 /\ ret.seq = 0 /\ BdMetric.long_value = 1

\* C3: the bdSeq metric of a birth payload built right after a death payload
\* carries the value the bdSeq metric of that death payload carries.
C3_BirthSharesDeathBdSeq ==
    (ret.op = "getNodeBirthPayload" /\ prevDeath # NoValue) =>
        BdMetric.long_value = prevDeath

\* C4: getNodeDeathPayload returns exactly one metric, bdSeq of datatype Int64
\* with a timestamp, whose value is the birth/death counter as the call
\* found it (0 on a fresh generator), and leaves the counter one tick further.
C4_DeathPayload ==
    ret.op = "getNodeDeathPayload" =>
        /\ Len(ret.metrics) = 1
        /\ BdMetric.name = "bdSeq"
        /\ BdMetric.datatype = "Int64"
        /\ BdMetric.timestamp \in Clock
        /\ BdMetric.long_value = ret.preBd
        /\ bdSeq = (ret.preBd + 1) % 256
        /\ (nSeq = 0 /\ nBd = 1) => BdMetric.long_value = 0

\* The death payload of a fresh generator.
C4_Witness ==
    /\ ret.op = "getNodeDeathPayload" /\ nSeq = 0 /\ nBd = 1
    /\ BdMetric.long_value = 0 /\ bdSeq = 1

\* C5: getNodeBirthPayload reports the message sequence counter as it found
\* it and leaves it one further (mod 256); both counters are determined by
\* the number of their next-value invocations alone.
C5_BirthKeepsSequence ==
    /\ ret.op = "getNodeBirthPayload" =>
          /\ ret.seq = ret.preSeq
          /\ seqNum = (ret.preSeq + 1) % 256
    /\ seqNum = nSeq % 256
    /\ bdSeq = nBd % 256

\* A birth payload built after three getSeqNum calls.
C5_Witness ==
    ret.op = "getNodeBirthPayload" /\ ret.preSeq = 3 /\ ret.seq = 3 /\ seqNum = 4

\* C6: getSeqNum leaves the birth/death counter as it found it; getBdSeqNum
\* and getNodeDeathPayload leave the message sequence counter as they found it.
C6_CountersIndependent ==
    /\ ret.op = "getSeqNum" => bdSeq = ret.preBd
    /\ ret.op \in {"getBdSeqNum", "getNodeDeathPayload"} => seqNum = ret.preSeq

\* getBdSeqNum called while the two counters hold different values.
C6_Witness ==
    /\ ret.op = "getBdSeqNum" /\ ret.preSeq = 2 /\ seqNum = 2
    /\ ret.preBd = 5 /\ bdSeq = 6

\* C7: both counters stay within 0..255 and no call raises, the call made at
\* 255 included.
C7_CountersInRange ==
    /\ seqNum \in 0..255
    /\ bdSeq \in 0..255
    /\ ~ret.raised

\* The call made when the counter holds 255.
C7_Witness ==
    /\ ret.op = "getBdSeqNum" /\ ret.preBd = 255 /\ ret.value = 255
    /\ bdSeq = 0 /\ ~ret.raised

-----------------------------------------------------------------------------
(***************************************************************************)
(* Properties of the topic-to-graph transformer (checked under SpecGraph)  *)
(***************************************************************************)

\* The save_node calls of the last transaction made for topic segments.
TopicCalls == SelectSeq(calls, LAMBDA c : c.phase = "topic")

\* The node a save_node call handed back to its caller.
Returned(c) == c.rows[1]

\* The nodes of graph G that carry a write's (parent, type, name) key.
SameKey(G, c) ==
    {i \in 1..Len(G.nodes) :
        /\ G.nodes[i].label = c.nodetype
        /\ "node_name" \in DOMAIN G.nodes[i].props
        /\ G.nodes[i].props["node_name"] = c.nodename
        /\ (c.parent_id # 0 => <<c.parent_id, i>> \in G.rels)}

\* The attribute map a save_node call supplied.
Supplied(c) == IF c.attributes.kind = "none" THEN <<>> ELSE c.attributes.items

TopicABC == <<"a", "/", "b", "/", "c">>

\* C8: save_all_nodes saves the segments of the topic in order, one save_node
\* per segment and before any attribute node: the first with no parent, each
\* later one under the node returned for its predecessor, and the leaf alone
\* with the plain attributes of the message; after the commit each segment's
\* node is the PARENT_OF child of its predecessor's.  Topic a/b/c with
\* message {} gives three nodes in a chain, the leaf saved with no attribute.
C8_SegmentsSavedInOrder ==
    last.done =>
        LET segs  == split(last.topic)
            tc    == TopicCalls
            n     == Len(tc)
            plain == separate_plain_composite_attributes(last.message).simple_attr
        IN  /\ n = Len(segs)
            /\ \A i \in 1..n :
                  /\ calls[i] = tc[i]
                  /\ tc[i].nodename = StrV(segs[i])
                  /\ i <= Len(last.node_types) => tc[i].nodetype = last.node_types[i]
                  /\ Len(tc[i].rows) >= 1
                  /\ tc[i].parent_id = IF i = 1 THEN 0 ELSE Returned(tc[i - 1])
                  /\ Supplied(tc[i]) = IF i = n THEN plain ELSE <<>>
            /\ last.err = "ok" =>
                  \A i \in 2..n : <<Returned(tc[i - 1]), Returned(tc[i])>> \in rels
            /\ (last.topic = TopicABC /\ last.message = DictV(<<>>)) =>
                  /\ last.err = "ok"
                  /\ Len(calls) = 3
                  /\ Cardinality({Returned(tc[i]) : i \in 1..n}) = 3
                  /\ Supplied(tc[3]) = <<>>

\* Topic a/b/c with message {} written to a database that holds none of its
\* nodes: three nodes are created and chained.
C8_Witness ==
    /\ last.done /\ last.err = "ok"
    /\ last.topic = TopicABC /\ last.message = DictV(<<>>)
    /\ Len(calls) = 3
    /\ \A i \in 1..3 : calls[i].matched = {}
    /\ {<<Returned(calls[1]), Returned(calls[2])>>,
        <<Returned(calls[2]), Returned(calls[3])>>} \subseteq rels

\* C9: a save_node call whose (parent, name, type) key exists creates no node
\* and no relationship, and changes nothing but the modification timestamp
\* and the supplied attributes of the node it found.
C9_MergeChangesOnlyModifiedAndAttributes ==
    \A k \in 1..Len(calls) :
        LET c    == calls[k]
            same == SameKey(c.pre, c)
        IN  same # {} =>
              /\ Len(c.post.nodes) = Len(c.pre.nodes)
              /\ c.post.rels = c.pre.rels
              /\ \A i \in 1..Len(c.pre.nodes) :
                    IF i \in same
                    THEN /\ c.post.nodes[i].label = c.pre.nodes[i].label
                         /\ c.post.nodes[i].created = c.pre.nodes[i].created
                         /\ c.post.nodes[i].modified = c.timestamp
                         /\ c.post.nodes[i].props =
                               SetProps(c.pre.nodes[i].props, Supplied(c))
                    ELSE c.post.nodes[i] = c.pre.nodes[i]

\* The name a node carries.
NameOf(i) == nodes[i].props["node_name"]

\* A node has at most one parent.
OneParent == \A r1, r2 \in rels : r1[2] = r2[2] => r1[1] = r2[1]

\* C10 as stated: children of one parent that carry the same name are one
\* node, and a node is the child of one parent only.
C10_IdentityIsParentAndName ==
    /\ \A r1, r2 \in rels :
          (/\ r1[1] = r2[1]
           /\ "node_name" \in DOMAIN nodes[r1[2]].props
           /\ "node_name" \in DOMAIN nodes[r2[2]].props
           /\ NameOf(r1[2]) = NameOf(r2[2])) => r1[2] = r2[2]
    /\ OneParent

\* C10 amended: a write merges into the nodes that carry its type label and
\* its name under its parent (anywhere, for a write with no parent) and
\* creates no node; when there is none it creates exactly one node with its
\* label and name, as a child of its parent; and a node is the child of one
\* parent only.
C10_IdentityIsParentTypeAndName ==
    /\ \A k \in 1..Len(calls) :
          LET c    == calls[k]
              same == SameKey(c.pre, c)
              new  == Len(c.pre.nodes) + 1
          IN  IF same # {}
              THEN /\ Len(c.post.nodes) = Len(c.pre.nodes)
                   /\ c.post.rels = c.pre.rels
                   /\ {c.rows[j] : j \in 1..Len(c.rows)} = same
              ELSE /\ Len(c.post.nodes) = new
                   /\ c.rows = <<new>>
                   /\ c.post.nodes[new].label = c.nodetype
                   /\ \A i \in 1..Len(c.pre.nodes) : c.post.nodes[i] = c.pre.nodes[i]
                   /\ c.post.rels = IF c.parent_id = 0 THEN c.pre.rels
                                    ELSE c.pre.rels \cup {<<c.parent_id, new>>}
    /\ OneParent

\* A topic node and an attribute node of the same name under one parent, and
\* a write that merged into the topic node of that name.
C10_Witness ==
    /\ \E r1, r2 \in rels :
          /\ r1[1] = r2[1] /\ r1[2] # r2[2]
          /\ NameOf(r1[2]) = NameOf(r2[2])
          /\ nodes[r1[2]].label # nodes[r2[2]].label
    /\ \E k \in 1..Len(calls) :
          calls[k].parent_id # 0 /\ SameKey(calls[k].pre, calls[k]) # {}

\* C11: once a node exists no save_node call changes its creation timestamp,
\* and a call that merges into a node sets that node's modification timestamp
\* to the call's timestamp, for a node saved with no parent as for one saved
\* under a parent.
C11_CreatedOnceModifiedOnMerge ==
    \A k \in 1..Len(calls) :
        LET c == calls[k]
        IN  \A i \in 1..Len(c.pre.nodes) :
              /\ c.post.nodes[i].created = c.pre.nodes[i].created
              /\ i \in SameKey(c.pre, c) => c.post.nodes[i].modified = c.timestamp

\* The save_node calls of the last transaction made for attribute nodes.
AttributeCalls == SelectSeq(calls, LAMBDA c : c.phase = "attribute")

\* A value is a scalar: neither a map nor a list.
IsScalar(v) == v.kind \in {"str", "int", "none"}

\* A map holds a composite value.
HoldsComposite(v) ==
    /\ v.kind = "dict"
    /\ \E i \in 1..Len(v.items) : ~IsScalar(v.items[i][2])

\* C12: a message whose first-level composite holds a composite of its own
\* is persisted, and the inner composite is saved as a child of the node
\* saved for the enclosing composite.
C12_NestedCompositesMaterialized ==
    (/\ last.done
     /\ last.message.kind = "dict"
     /\ \E i \in 1..Len(last.message.items) : HoldsComposite(last.message.items[i][2])) =>
        /\ last.err = "ok"
        /\ \E j, k \in 1..Len(AttributeCalls) :
              /\ j < k
              /\ AttributeCalls[k].parent_id = Returned(AttributeCalls[j])

\* The children of node p that carry a label and a name.
ChildrenNamed(p, label, name) ==
    {i \in 1..Len(nodes) :
        /\ <<p, i>> \in rels
        /\ nodes[i].label = label
        /\ "node_name" \in DOMAIN nodes[i].props
        /\ nodes[i].props["node_name"] = StrV(name)}

\* The properties of a node other than its name, as a set of <<key, value>>.
PropsOf(i) == {<<k, nodes[i].props[k]>> : k \in DOMAIN nodes[i].props \ {"node_name"}}

\* The entries of a map, as a set of <<key, value>>.
EntriesOf(d) == {d[i] : i \in 1..Len(d)}

KeysOf(d) == {d[i][1] : i \in 1..Len(d)}

-----------------------------------------------------------------------------
(***************************************************************************)
(* Properties of single calls of the transformer (checked under SpecCall)  *)
(***************************************************************************)

\* The map a message is: None is the empty map.
MapOf(message) == IF message.kind = "none" THEN <<>> ELSE message.items

\* A value the split keeps on the node: a scalar, or a list of scalars.
IsPlain(v) ==
    \/ IsScalar(v)
    \/ v.kind = "list" /\ \A j \in 1..Len(v.items) : IsScalar(v.items[j][2])

\* A list that holds an element which is no scalar.
IsMixedList(v) == v.kind = "list" /\ ~IsPlain(v)

\* The values a map holds.
ValuesOf(d) == {d[i][2] : i \in 1..Len(d)}

\* C14: separate_plain_composite_attributes returns two maps without raising;
\* the plain map is exactly the entries of the input whose value is a scalar
\* or a list of scalars; the composite map holds every map-valued entry of
\* the input under its key and every element of every list that has a
\* non-scalar element, and nothing else; {} and None give two empty maps.
C14_SplitPlainComposite ==
    (fnOut.done /\ fnArgs.fn = "save_all_nodes") =>
        LET m       == MapOf(fnArgs.message)
            simple  == fnOut.simple_attr
            complex == fnOut.complex_attr
            maps    == {<<StrV(m[i][1]), m[i][2]>> :
                           i \in {i \in 1..Len(m) : m[i][2].kind = "dict"}}
            elems   == UNION {ValuesOf(m[i][2].items) :
                                 i \in {i \in 1..Len(m) : IsMixedList(m[i][2])}}
        IN  /\ fnOut.err = "ok"
            /\ EntriesOf(simple) = {m[i] : i \in {i \in 1..Len(m) : IsPlain(m[i][2])}}
            /\ maps \subseteq EntriesOf(complex)
            /\ elems \subseteq ValuesOf(complex)
            /\ ValuesOf(complex) \subseteq {e[2] : e \in maps} \cup elems
            /\ Len(m) = 0 => (simple = <<>> /\ complex = <<>>)

\* The keys of a map, in order.
KeySeq(d) == [i \in 1..Len(d) |-> d[i][1]]

\* The key the element at position j (index j - 1) of the list under `key`
\* is given: the value of the element's name field when it is a map that
\* has one, and the text <key>_<index> otherwise.
ExpectedKey(key, j, e) ==
    IF e.kind = "dict" /\ \E i \in 1..Len(e.items) : e.items[i][1] = "name"
    THEN e.items[CHOOSE i \in 1..Len(e.items) : e.items[i][1] = "name"][2]
    ELSE StrV(key \o "_" \o ToString(j - 1))

\* C15: the composite keys of a split are the keys of the map-valued entries
\* and, for every list that has a non-scalar element, <key>_<index> for each
\* element, or the element's name when it is a map with a name field; the
\* records named v1 and v2 under c give the keys v1, v2; and a persisted
\* message has one save_node call per composite key, in order, under the
\* leaf, each returning a node of its own.
C15_ListElementKeys ==
    /\ (fnOut.done /\ fnArgs.fn = "save_all_nodes") =>
          LET m == MapOf(fnArgs.message)
              listKeys ==
                  UNION {{ExpectedKey(m[i][1], j, m[i][2].items[j][2]) :
                             j \in 1..Len(m[i][2].items)} :
                         i \in {i \in 1..Len(m) : IsMixedList(m[i][2])}}
              mapKeys == {StrV(m[i][1]) : i \in {i \in 1..Len(m) : m[i][2].kind = "dict"}}
          IN  /\ {d[1] : d \in EntriesOf(fnOut.complex_attr)} = mapKeys \cup listKeys
              /\ fnArgs.message = MsgNamedList =>
                    KeySeq(fnOut.complex_attr) = <<StrV("v1"), StrV("v2")>>
    /\ (fnOut.done /\ last.done /\ last.err = "ok") =>
          LET ac   == AttributeCalls
              leaf == Returned(TopicCalls[Len(TopicCalls)])
          IN  /\ [k \in 1..Len(ac) |-> ac[k].nodename] = KeySeq(fnOut.complex_attr)
              /\ \A k \in 1..Len(ac) : ac[k].parent_id = leaf
              /\ Cardinality({Returned(ac[k]) : k \in 1..Len(ac)}) = Len(ac)

\* {"a": "v1", "c": [{"k": 1}, {"name": "v2", "k2": 200}]} persisted: the keys
\* c_0 and v2, and a child node of the leaf for each.
C15_Witness ==
    /\ fnOut.done /\ last.done /\ last.err = "ok"
    /\ fnArgs.message = MsgUnnamedList
    /\ KeySeq(fnOut.complex_attr) = <<StrV("c_0"), StrV("v2")>>
    /\ Len(AttributeCalls) = 2
    /\ AttributeCalls[1].nodename = StrV("c_0") /\ AttributeCalls[2].nodename = StrV("v2")
    /\ Returned(AttributeCalls[1]) # Returned(AttributeCalls[2])

FiveLevels == <<"ENTERPRISE", "FACILITY", "AREA", "LINE", "DEVICE">>

\* C16: with at least one level name, get_topic_node_type(d, levels) returns
\* levels[d] when d < len(levels) and <last level>_depth_<d - len(levels) + 1>
\* otherwise; depth 5 of the five levels is DEVICE_depth_1, depth 9 is
\* DEVICE_depth_5.
C16_NodeTypeOfDepth ==
    (fnOut.done /\ fnArgs.fn = "get_topic_node_type" /\ Len(fnArgs.node_types) > 0) =>
        LET d      == fnArgs.current_depth
            levels == fnArgs.node_types
            n      == Len(levels)
        IN  /\ fnOut.err = "ok"
            /\ d < n => fnOut.label = levels[d + 1]
            /\ d >= n => fnOut.label = levels[n] \o "_depth_" \o ToString(d - n + 1)
            /\ (levels = FiveLevels /\ d = 4) => fnOut.label = "DEVICE"
            /\ (levels = FiveLevels /\ d = 5) => fnOut.label = "DEVICE_depth_1"
            /\ (levels = FiveLevels /\ d = 9) => fnOut.label = "DEVICE_depth_5"

C16_Witness ==
    /\ fnOut.done /\ fnArgs.fn = "get_topic_node_type"
    /\ fnArgs.node_types = FiveLevels /\ fnArgs.current_depth = 9
    /\ fnOut.label = "DEVICE_depth_5"

\* C17: with no level name get_topic_node_type returns a label for every
\* depth without raising, and a topic is persisted with no level name given.
C17_NoLevelNames ==
    /\ (fnOut.done /\ fnArgs.fn = "get_topic_node_type" /\ fnArgs.node_types = <<>>) =>
          fnOut.err = "ok"
    /\ (last.done /\ last.node_types = <<>>) =>
          (last.err # "IndexError" /\ Len(TopicCalls) = Len(split(last.topic)))

\* C18: the empty topic is rejected: save_all_nodes makes no save_node call
\* for it and the database holds no node afterwards.
C18_EmptyTopicRejected ==
    (last.done /\ last.topic = <<>>) =>
        /\ calls = <<>>
        /\ nodes = <<>>

-----------------------------------------------------------------------------
(***************************************************************************)
(* Properties of the Sparkplug B listener (checked under SpecSpb)          *)
(***************************************************************************)

\* C19: on_message calls the publisher exactly once when the topic has 4 or
\* 5 segments, with segments 1, 2 and 3 as group, message type and edge node
\* and the 5th segment as device (no device when there are 4), and makes
\* no call for a topic of any other depth.
C19_HandsOverDepth4And5 ==
    spbLast.done =>
        LET topic_path == split(spbLast.topic)
            n          == Len(topic_path)
        IN  IF n \in {4, 5}
            THEN /\ Len(spbLast.handed) = 1
                 /\ spbLast.handed[1].payload = spbLast.payload
                 /\ spbLast.handed[1].group_id = topic_path[2]
                 /\ spbLast.handed[1].message_type = topic_path[3]
                 /\ spbLast.handed[1].edge_node_id = topic_path[4]
                 /\ spbLast.handed[1].device_id =
                       IF n = 5 THEN <<topic_path[5]>> ELSE <<>>
            ELSE spbLast.handed = <<>>

\* C20: on_message returns for a message whose topic depth is malformed or
\* whose payload cannot be decoded, and the client loop keeps running.
C20_BadMessageDropped ==
    (/\ spbLast.done
     /\ \/ Len(split(spbLast.topic)) \notin {4, 5}
        \/ spbLast.payload = "undecodable") =>
        /\ ~spbLast.raised
        /\ spbRunning

-----------------------------------------------------------------------------
(***************************************************************************)
(* Properties of the retries of persist_mqtt_msg (checked under SpecRetry) *)
(***************************************************************************)

\* The write attempts of the call that failed with a transient error.
FailedAttempts ==
    {i \in 1..Len(pm.attempts) :
        pm.attempts[i].outcome \in TransientErrors}

\* C21: a persist_mqtt_msg call that raises a transient error has made
\* exactly max_retry + 1 write attempts, all of which failed, and raises the
\* error of the last one; a call makes no attempt after one that did not
\* fail with a transient error, and never more than max_retry + 1 attempts.
C21_RetriesUpToCeiling ==
    /\ Len(pm.attempts) <= pm.max_retry + 1
    /\ \A i \in 1..Len(pm.attempts) : pm.attempts[i].retry = i - 1
    /\ \A i \in 1..Len(pm.attempts) - 1 : i \in FailedAttempts
    /\ (pm.status = "raised" /\ pm.err \in TransientErrors) =>
          /\ Len(pm.attempts) = pm.max_retry + 1
          /\ FailedAttempts = 1..Len(pm.attempts)
          /\ pm.err = pm.attempts[Len(pm.attempts)].outcome
    /\ pm.status = "running" => FailedAttempts = 1..Len(pm.attempts)
    /\ pm.status = "returned" =>
          /\ Len(pm.attempts) >= 1
          /\ pm.attempts[Len(pm.attempts)].outcome = "ok"
          /\ last.err = "ok"

\* A handler with max_retry = 2 whose three write attempts all failed.
C21_Witness ==
    /\ pm.status = "raised" /\ pm.max_retry = 2
    /\ Len(pm.attempts) = 3
    /\ pm.err = "SessionExpired"

-----------------------------------------------------------------------------
(***************************************************************************)
(* Properties of the historian (checked under SpecHist)                    *)
(***************************************************************************)

\* C22: a persist_mqtt_msg call of the historian that raises DataError or
\* OperationalError has run the insert block exactly MAX_RETRIES + 1 times
\* and inserted no row; a call that returns has inserted exactly one row, in
\* its last run; no call runs the block more than MAX_RETRIES + 1 times, and
\* the error of a call that raises reaches the caller of persist_mqtt_msg.
C22_InsertRetriesUpToCeiling ==
    /\ hh.call.attempts = hh.call.retry
    /\ hh.call.retry <= MAX_RETRIES
    /\ hh.call.inserted = 0
    /\ \A i \in 1..Len(histLog) :
          /\ histLog[i].attempts <= MAX_RETRIES + 1
          /\ (histLog[i].status = "raised" /\ histLog[i].err \in RetriedErrors) =>
                /\ histLog[i].attempts = MAX_RETRIES + 1
                /\ histLog[i].inserted = 0
                /\ histLog[i].escalated
          /\ histLog[i].status = "returned" => histLog[i].inserted = 1
    /\ hh.table = Cardinality({i \in 1..Len(histLog) : histLog[i].status = "returned"})

\* A call whose MAX_RETRIES + 1 inserts all failed, and a call that inserted
\* its row after failed inserts.
C22_Witness ==
    /\ Len(histLog) = 2
    /\ histLog[1].via = "persist_mqtt_msg" /\ histLog[2].via = "persist_mqtt_msg"
    /\ histLog[1].status = "raised" /\ histLog[1].inserts = MAX_RETRIES + 1
    /\ histLog[2].status = "returned" /\ histLog[2].attempts = 3
    /\ hh.table = 1

\* C23: a decoded message that on_message did not get persisted, at the
\* retry ceiling or before any insert was tried, leaves on_message as an
\* exception: the listener returns normally only for a message whose row
\* was inserted.
C23_PersistFailureEscalates ==
    \A i \in 1..Len(histLog) :
        (histLog[i].via = "on_message" /\ histLog[i].status # "undecoded"
            /\ histLog[i].inserted = 0) =>
                histLog[i].escalated

-----------------------------------------------------------------------------
(***************************************************************************)
(* Properties of the metric setters (checked under SpecSetter)             *)
(***************************************************************************)

\* v is a signed integer of the width: -2**(factor-1) <= v <= 2**(factor-1) - 1.
Representable(v, factor) ==
    /\ ~IntLess(v, IntNeg(Pow2(factor - 1)))
    /\ IntLess(v, Pow2(factor - 1))

\* The slot an integer setter writes.
IntSlot == IF spbArgs.setter = "setIntValueInMetric" THEN "int_value" ELSE "long_value"
IntSetterCalled ==
    /\ spbArgs.setter \in {"setIntValueInMetric", "setLongValueInMetric"}
    /\ spbMetric # metric_dict

\* C24: setIntValueInMetric and setLongValueInMetric store v + 2^w for a
\* negative v and v itself for a non-negative v or a width factor of 0; for
\* w in {8, 16, 32, 64} and representable v the stored value lies in
\* 0 .. 2^w - 1.
C24_SignedStoredAsUnsigned ==
    IntSetterCalled =>
        LET v == spbArgs.value
            w == spbArgs.factor
            stored == spbMetric[IntSlot]
        IN  /\ (v.neg /\ w # 0) => stored = IntAdd(v, Pow2(w))
            /\ (~v.neg \/ w = 0) => stored = v
            /\ (w # 0 /\ Representable(v, w)) =>
                  /\ ~stored.neg
                  /\ IntLess(stored, Pow2(w))

\* The minimum 64-bit value is stored as 2^63.
C24_Witness ==
    /\ spbArgs.setter = "setLongValueInMetric" /\ spbArgs.factor = 64
    /\ spbArgs.value = IntNeg(Pow2(63))
    /\ spbMetric.long_value = Pow2(63)

\* C25: decoding the stored value of a signed integer representable in the
\* width (8, 16, 32 or 64 bits) gives the integer back.
C25_RoundTrip ==
    (IntSetterCalled /\ spbDecoded # NoDecoded /\ spbArgs.factor # 0
        /\ Representable(spbArgs.value, spbArgs.factor)) =>
            spbDecoded = spbArgs.value

\* The minimum 32-bit value went through 2^31 and came back.
C25_Witness ==
    /\ spbArgs.setter = "setIntValueInMetric" /\ spbArgs.factor = 32
    /\ spbArgs.value = IntNeg(Pow2(31))
    /\ spbMetric.int_value = Pow2(31)
    /\ spbDecoded = IntNeg(Pow2(31))

\* The value slot each setter selects.
SlotOf ==
    [setIntValueInMetric |-> "int_value", setLongValueInMetric |-> "long_value",
     setFloatValueInMetric |-> "float_value", setDoubleValueInMetric |-> "double_value",
     setBooleanValueInMetric |-> "boolean_value", setStringValueInMetric |-> "string_value",
     setBytesValueInMetric |-> "bytes_value"]

\* C26: after a call of a typed setter the slot of its type holds a value
\* and every other slot of the metric is still None.
C26_OneSlotPopulated ==
    spbMetric # metric_dict =>
        \A slot \in DOMAIN metric_dict :
            (spbMetric[slot] # SpbNone) <=> (slot = SlotOf[spbArgs.setter])

\* The boolean setter has filled boolean_value only.
C26_Witness ==
    /\ spbArgs.setter = "setBooleanValueInMetric"
    /\ spbMetric.boolean_value = SpbVal("bool", "False")
    /\ spbMetric.int_value = SpbNone

-----------------------------------------------------------------------------
(***************************************************************************)
(* Properties of the GraphQL types (checked under SpecGql)                 *)
(***************************************************************************)

\* C27: a metric or property value marked as null resolves to None whatever
\* its datatype and whatever its value slot holds.
C27_NullResolvesToNone ==
    (gqlOut.done /\ gqlArgs.is_null
        /\ gqlArgs.fn \in {"SPBMetric.resolve_value", "SPBPropertyValue.resolve_value"}) =>
            gqlOut = Returns(NoneV)

\* A null metric tagged Int32 with 0 in its slot resolved to None.
C27_Witness ==
    /\ gqlArgs.fn = "SPBMetric.resolve_value" /\ gqlArgs.is_null
    /\ gqlArgs.datatype = Member("SPBDataTypeEnum", "Int32")
    /\ gqlArgs.value = IntV("0")
    /\ gqlOut = Returns(NoneV)

\* The tags a metric or template parameter resolver has a case arm for.
SupportedTags(fn) ==
    IF fn = "SPBMetric.resolve_value"
    THEN {"Int8", "Int16", "Int32", "Int64", "UInt8", "UInt16", "UInt32", "UInt64",
          "DateTime", "Float", "Double", "Boolean", "String", "Text", "UUID", "Bytes",
          "File", "DataSet", "Template"}
    ELSE {"Float", "Double", "Boolean", "String", "Text", "UUID", "Bytes", "File",
          "DataSet", "Template"}

\* C28: resolving a metric or template parameter that is not null and whose
\* datatype tag is unknown or unsupported raises a decode error naming the
\* tag.
C28_UnknownTagIsDecodeError ==
    (gqlOut.done /\ ~gqlArgs.is_null
        /\ gqlArgs.fn \in {"SPBMetric.resolve_value", "SPBTemplateParameter.resolve_value"}
        /\ gqlArgs.datatype.tag \notin SupportedTags(gqlArgs.fn)) =>
            /\ gqlOut.err = "DecodeError"
            /\ gqlOut.arg = gqlArgs.datatype.tag

\* The DataSet arguments agree in their lengths.
LengthsAgree ==
    /\ Len(gqlArgs.columns) = Len(gqlArgs.types)
    /\ \A i \in 1..Len(gqlArgs.rows) : Len(gqlArgs.rows[i]) = Len(gqlArgs.types)

\* C29: SPBDataSet(columns, types, rows) succeeds exactly when columns and
\* types have one length and every row has that many cells, and then keeps
\* for each row one value per column with the type of the column; otherwise
\* it raises the length-mismatch error (ValueError).
C29_DataSetBuild ==
    (gqlOut.done /\ gqlArgs.fn = "SPBDataSet") =>
        IF LengthsAgree
        THEN /\ gqlOut.err = "ok"
             /\ gqlArgs.rows # <<>> =>
                   /\ gqlOut.value.rows.kind = "list"
                   /\ Len(gqlOut.value.rows.items) = Len(gqlArgs.rows)
        ELSE gqlOut.err = "ValueError"

\* The topic is in the Sparkplug namespace and is no STATE topic.
Levels == split(gqlArgs.topic)
IsStateTopic == Len(Levels) = 3 /\ Levels[1] = "spBv1.0" /\ Levels[3] = "STATE"
InSparkplugNamespace == Len(Levels) >= 2 /\ Levels[1] = "spBv1.0"

\* C30: resolve_payload returns a BytesPayload with the raw payload exactly
\* for a topic in the Sparkplug namespace that is no STATE topic; for every
\* other topic it returns a JSONPayload with the UTF-8 decoding of the
\* payload, and raises UnicodeDecodeError when the payload has none.
C30_PayloadTypeByTopic ==
    (gqlOut.done /\ gqlArgs.fn = "resolve_payload") =>
        IF InSparkplugNamespace /\ ~IsStateTopic
        THEN gqlOut = Returns(BytesPayload(gqlArgs.payload))
        ELSE IF gqlArgs.payload.s \in Utf8Texts
        THEN /\ gqlOut = Returns(JSONPayload(StrV(gqlArgs.payload.s)))
             /\ gqlOut.value.data # gqlArgs.payload
        ELSE gqlOut = Raises("UnicodeDecodeError", "utf-8")

\* A STATE message in the Sparkplug namespace resolved to JSON.
C30_Witness ==
    /\ gqlArgs.topic = <<"spBv1.0", "/", "uns_group", "/", "STATE">>
    /\ gqlOut = Returns(JSONPayload(StrV("{status: offline}")))

-----------------------------------------------------------------------------
(***************************************************************************)
(* Further properties of the stored graph (checked under SpecGraph)        *)
(***************************************************************************)

\* The parents of a node; a top-level node has none.
ParentsOf(i) == {r[1] : r \in {q \in rels : q[2] = i}}

\* C31: no two nodes with the same parents (two children of one parent, or
\* two top-level nodes) carry the same type label and the same node_name.
C31_SiblingsUnique ==
    \A i, j \in 1..Len(nodes) :
        (/\ i # j
         /\ ParentsOf(i) = ParentsOf(j)
         /\ nodes[i].label = nodes[j].label
         /\ "node_name" \in DOMAIN nodes[i].props
         /\ "node_name" \in DOMAIN nodes[j].props) =>
            nodes[i].props["node_name"] # nodes[j].props["node_name"]

\* C32: every attempt of one persist_mqtt_msg call writes with the
\* node_types of its first attempt.
C32_RetriesKeepNodeTypes ==
    \A i \in 1..Len(pm.attempts) : pm.attempts[i].node_types = pm.attempts[1].node_types

\* C33: a committed write changes the attribute map of no topic node but the
\* leaf's: every ancestor segment is saved with no attribute, the nodes it
\* matches keep their attribute map, and after the commit every topic node
\* the leaf's save did not match holds the attribute map it held before.
C33_AncestorsKeepAttributes ==
    (last.done /\ last.err = "ok" /\ Len(TopicCalls) >= 1) =>
        LET tc     == TopicCalls
            n      == Len(tc)
            before == calls[1].pre
        IN  /\ \A k \in 1..(n - 1) :
                  /\ Supplied(tc[k]) = <<>>
                  /\ \A i \in tc[k].matched :
                        tc[k].post.nodes[i].props = tc[k].pre.nodes[i].props
            /\ \A i \in 1..Len(before.nodes) :
                  (i \notin tc[n].matched /\ before.nodes[i].label # last.attr_node_type) =>
                      nodes[i].props = before.nodes[i].props

\* A message with plain attributes is written to a/b when node a already
\* holds attributes of its own.
C33_Witness ==
    /\ last.done /\ last.err = "ok"
    /\ last.topic = <<"a", "/", "b">>
    /\ Len(TopicCalls) = 2
    /\ Supplied(TopicCalls[2]) # <<>>
    /\ \E i \in TopicCalls[1].matched :
          /\ "a" \in DOMAIN calls[1].pre.nodes[i].props
          /\ nodes[i].props = calls[1].pre.nodes[i].props

\* The message has a key node_name.
NamesTheNode(message) == message.kind = "dict" /\ HasKey(message.items, NODE_NAME_KEY)

\* The last two writes carried the same topic and the same message, which
\* has no key node_name, and both were committed.
WrittenTwice ==
    /\ last.done /\ last.err = "ok"
    /\ last.before.done /\ last.before.err = "ok"
    /\ last.before.topic = last.topic
    /\ last.before.message = last.message
    /\ ~NamesTheNode(last.message)

\* C34: the second of two equal writes leaves the nodes, their labels and
\* attribute maps and the PARENT_OF relationships as the first left them.
C34_SecondWriteChangesTimestampsOnly ==
    WrittenTwice =>
        LET once == calls[1].pre
        IN  /\ Len(nodes) = Len(once.nodes)
            /\ rels = once.rels
            /\ \A i \in 1..Len(once.nodes) :
                  /\ nodes[i].label = once.nodes[i].label
                  /\ nodes[i].props = once.nodes[i].props

\* The plain attributes of a message, as the leaf is given them.
PlainOf(message) == separate_plain_composite_attributes(message).simple_attr

\* C35: after two committed writes on one topic the topic's leaf holds every
\* plain key of the later message with its value, and every plain key of
\* the earlier message that the later one lacks with the earlier value.
C35_LeafKeepsLatestValues ==
    (/\ last.done /\ last.err = "ok"
     /\ last.before.done /\ last.before.err = "ok"
     /\ last.before.topic = last.topic) =>
        LET leaf    == nodes[Returned(TopicCalls[Len(TopicCalls)])]
            later   == PlainOf(last.message)
            earlier == PlainOf(last.before.message)
        IN  /\ \A i \in 1..Len(later) :
                  /\ later[i][1] \in DOMAIN leaf.props
                  /\ leaf.props[later[i][1]] = later[i][2]
            /\ \A i \in 1..Len(earlier) :
                  ~HasKey(later, earlier[i][1]) =>
                      /\ earlier[i][1] \in DOMAIN leaf.props
                      /\ leaf.props[earlier[i][1]] = earlier[i][2]

-----------------------------------------------------------------------------
(***************************************************************************)
(* Properties of GraphDBHandler.connect (checked under SpecRetry)          *)
(***************************************************************************)

\* C36: connect returns only from a run whose connectivity verification
\* succeeded; it never runs its try block more than max_retry - retry + 1
\* times; it raises SystemError after exactly that many runs when the last
\* error is one it retries on, and at once after any other error, after
\* which it makes no further attempt.
C36_ConnectTerminates ==
    LET c == pm.connect
    IN  /\ c.attempts <= pm.max_retry - c.first + 1
        /\ c.status = "returned" => (c.outcome = "ok" /\ c.driver = "set")
        /\ c.status = "raised" =>
              /\ c.err = "SystemError"
              /\ c.outcome # "ok"
              /\ c.outcome \in RetriableConnectErrors =>
                    c.attempts = pm.max_retry - c.first + 1
              /\ c.retry = c.first + c.attempts - 1
        /\ c.status = "running" =>
              /\ c.outcome \in RetriableConnectErrors \cup {"none"}
              /\ c.retry = c.first + c.attempts

\* connect(retry = 1) of a handler with max_retry = 2 raised after two
\* verification attempts that failed with a retriable error.
C36_Witness ==
    /\ pm.connect.status = "raised"
    /\ pm.max_retry = 2 /\ pm.connect.first = 1
    /\ pm.connect.attempts = 2
    /\ pm.connect.outcome = "ServiceUnavailable"

-----------------------------------------------------------------------------
(***************************************************************************)
(* Further properties of single calls (checked under SpecCall)             *)
(***************************************************************************)

\* What the split is to put into the composite map, by position in the
\* message: <<i, 0>> for a map-valued entry i, <<i, j>> for the element j of
\* a list i that has a non-scalar element.
CompositeSources(m) ==
    {<<i, 0>> : i \in {i \in 1..Len(m) : m[i][2].kind = "dict"}}
    \cup UNION {{<<i, j>> : j \in 1..Len(m[i][2].items)} :
                   i \in {i \in 1..Len(m) : IsMixedList(m[i][2])}}

\* C37: the composite map of a split has one entry, under a key of its own,
\* for every map-valued entry of the message and for every element of every
\* list that has a non-scalar element.
C37_OneEntryPerElement ==
    (fnOut.done /\ fnArgs.fn = "save_all_nodes" /\ fnOut.err = "ok") =>
        /\ Len(fnOut.complex_attr) = Cardinality(CompositeSources(MapOf(fnArgs.message)))
        /\ \A i, j \in 1..Len(fnOut.complex_attr) :
              i # j => fnOut.complex_attr[i][1] # fnOut.complex_attr[j][1]

\* C38: a message holding a list with a non-scalar element is persisted
\* without an error, with one save_node call under the leaf for every key
\* of the composite map of its split.
C38_MixedListStored ==
    (/\ fnOut.done /\ fnOut.err = "ok"
     /\ last.done /\ Len(last.node_types) > 0
     /\ \E i \in 1..Len(MapOf(fnArgs.message)) :
           IsMixedList(MapOf(fnArgs.message)[i][2])) =>
        /\ last.err = "ok"
        /\ [k \in 1..Len(AttributeCalls) |-> AttributeCalls[k].nodename] =
              KeySeq(fnOut.complex_attr)

-----------------------------------------------------------------------------
(***************************************************************************)
(* Further properties of the historian (checked under SpecHist)            *)
(***************************************************************************)

\* C39: while a historian insert waits for its retry the handler holds no
\* connection and no open cursor, and no run of the insert block is given a
\* cursor of the connection the run before it was given one of.
C39_RetryOnNewConnection ==
    /\ (hh.call.status = "running" /\ hh.call.attempts >= 1) =>
          (hh.conn = "none" /\ hh.cursor # "open")
    /\ (hh.call.on # NoConnection /\ hh.call.before # NoConnection) =>
          hh.call.on # hh.call.before

-----------------------------------------------------------------------------
(***************************************************************************)
(* Further properties of the GraphQL types (checked under SpecGql)         *)
(***************************************************************************)

\* C40: the members of SPBDataTypeEnum have pairwise distinct tags, UInt8
\* has the UInt8 tag, every member named in a case arm of
\* SPBMetric.resolve_value is a member of the enumeration, and so no call
\* of the resolver fails with AttributeError.
C40_EveryTypeHasItsOwnTag ==
    /\ \A a, b \in DOMAIN SPBDataTypeEnum :
          a # b => SPBDataTypeEnum[a] # SPBDataTypeEnum[b]
    /\ SPBDataTypeEnum["UInt8"] = "UInt8"
    /\ \A i \in 1..Len(MetricArms) : \A j \in 1..Len(MetricArms[i].names) :
          MetricArms[i].names[j] \in DOMAIN SPBDataTypeEnum \cup {"_"}
    /\ (gqlOut.done /\ gqlArgs.fn = "SPBMetric.resolve_value") =>
          gqlOut.err # "AttributeError"

=============================================================================
